---------------------------- MODULE Spec2Model ----------------------------
(* Feedback lifecycle of the SME poetry feedback loop (backend/app).        *)
(* The state is the committed content of the database tables of models.py   *)
(* plus the guide file; every action is one request handler of a router,    *)
(* run from its first query to its commit.  A handler answers a request in  *)
(* the state it finds: <Handler>Reply is that answer ("ok", or the error of *)
(* the HTTPException raised: 404 NotFound, 400 on a status check            *)
(* InvalidState, 400 on the input ValidationError, 500 on a failed          *)
(* collaborator ExternalCapabilityError); a request that is not answered    *)
(* "ok" commits nothing.  Texts are sequences of tokens; an Optional column *)
(* is a set with at most one element ({} is None).                          *)
EXTENDS Integers, Sequences, FiniteSets, TLC

(* ------------------------------ bounds --------------------------------- *)
MaxPoems == 1
MaxSessions == 2
MaxComments == 1
MaxItems == 1
MaxMessages == 3
MaxGuides == 2
(* the voice conversations: three turns after the greeting *)
MaxVoiceMessages == 7
MaxVoiceItems == 2
MaxClock == 2
(* the confirmation of extracted items *)
MaxFoldItems == 3
MaxFoldMessages == 4
MaxFoldComments == 2
(* the guide versions: concurrent appends and edited guide changes *)
MaxGuideRows == 3
MaxInFlight == 2
MaxPoemLen == 3
MaxHighlightLen == 2

(* ------------------------- Optional columns ---------------------------- *)
None == {}
Some(x) == {x}
Val(o) == CHOOSE x \in o : TRUE
(* Python truthiness of an Optional[str]: not None and not empty *)
Truthy(o) == o # None /\ Val(o) # <<>>
(* Python `o or ""` *)
OrEmpty(o) == IF Truthy(o) THEN Val(o) ELSE <<>>

(* ------------------------- enumerations -------------------------------- *)
PoemStatus == {"draft", "under_review", "revised", "accepted"}
FeedbackStatus == {"in_progress", "submitted", "processed"}
VoiceSessionStatus == {"active", "completed", "cancelled"}
MessageRole == {"sme", "ai"}
FeedbackType == {"inline_comment", "overall", "guide_suggestion", "rating"}
ConfirmationStatus == {"pending", "confirmed", "rejected"}

(* ------------------------------ inputs --------------------------------- *)
(* the guide file shipped with the application *)
InitialGuide == <<"guide">>
(* texts the poem generator may return *)
PoemTexts == {<<"The", "heartbeat">>}
(* request bodies of POST /feedback/{id}/comment *)
CommentInputs ==
    {[highlighted_text |-> <<"heartbeat">>, start_offset |-> 1, end_offset |-> 2,
      comment |-> <<"cliche">>]}
(* request bodies of PUT /feedback/{id} *)
FeedbackUpdates ==
    {[overall_feedback |-> Some(<<"shorter">>), rating |-> Some(4)]}
(* request bodies of POST /revisions/{id}/review *)
RevisionReviews ==
    [accept_poem : BOOLEAN, accept_guide_changes : BOOLEAN,
     edited_poem : {None}, edited_guide_changes : {None}]
(* reviews that edit the proposed guide changes (an empty text is falsy) *)
GuideReviews ==
    [accept_poem : BOOLEAN, accept_guide_changes : BOOLEAN,
     edited_poem : {None},
     edited_guide_changes : {None, Some(<<>>), Some(<<"edited">>)}]
(* request bodies of POST /guide *)
GuideUpdates == {<<"human_edit">>}
(* what the extractor may find in a conversation: an item of the returned   *)
(* "extracted_items" list (its confidence is stored and never read)         *)
InlineItem ==
    [feedback_type |-> "inline_comment", content |-> <<"weak", "word">>,
     highlighted_text |-> Some(<<"heartbeat">>),
     start_offset |-> Some(1), end_offset |-> Some(2)]
OverallItem ==
    [feedback_type |-> "overall", content |-> <<"flat">>,
     highlighted_text |-> None, start_offset |-> None, end_offset |-> None]
(* an item whose "feedback_type" is not a value of FeedbackType *)
InvalidItem ==
    [feedback_type |-> "praise", content |-> <<"nice">>,
     highlighted_text |-> None, start_offset |-> None, end_offset |-> None]
(* results of AIInterviewer.get_response for one SME turn *)
InterviewerResponses ==
    {[follow_up_question |-> <<"more?">>, extracted_items |-> <<InlineItem>>,
      is_complete |-> FALSE],
     [follow_up_question |-> <<"thanks">>, extracted_items |-> <<>>,
      is_complete |-> TRUE],
     [follow_up_question |-> <<"more?">>, extracted_items |-> <<InvalidItem>>,
      is_complete |-> FALSE]}
(* results of AIInterviewer.extract_all_feedback for a transcript *)
ExtractionResults == {<<>>, <<OverallItem>>, <<OverallItem, InvalidItem>>}
(* the form of POST /voice/{id}/message: a text, or an audio file with what *)
(* the transcription returns for it (None: the transcription raises)        *)
VoiceMessageRequests ==
    {[text |-> Some(<<"the", "word">>), audio_file |-> None],
     [text |-> None, audio_file |-> None],
     [text |-> None, audio_file |-> Some([transcription |-> None])]}
(* request bodies of POST /realtime/save-transcript *)
Transcripts == {<<>>, <<[role |-> "user", text |-> <<"too", "flat">>]>>}

VARIABLES
    guide_file,            \* settings.guide_path content
    guide_versions,        \* table guide_versions
    poems,                 \* table poems (id = index)
    feedback_sessions,     \* table feedback_sessions (id = index)
    inline_comments,       \* table inline_comments (set of rows)
    revisions,             \* table revisions (id = index)
    voice_sessions,        \* table voice_feedback_sessions (id = index)
    conversation_messages, \* table conversation_messages (id = index)
    extracted_feedback,    \* table extracted_feedback (id = index)
    clock,                 \* datetime.utcnow(), a logical clock
    in_flight,             \* update_guide calls between their read and commit
    offset_calls           \* calls of calculate_text_offsets and what they returned

vars == <<guide_file, guide_versions, poems, feedback_sessions, inline_comments,
          revisions, voice_sessions, conversation_messages, extracted_feedback,
          clock, in_flight, offset_calls>>

(* ------------------------------ helpers -------------------------------- *)
Ids(table) == 1..Len(table)
PoemIds == 1..MaxPoems
SessionIds == 1..MaxSessions
CommentIds == 1..MaxComments
RevisionIds == 1..MaxSessions
ItemIds == 1..MaxItems

(* the sizes a behaviour is explored up to *)
Limits ==
    [messages |-> MaxMessages, items |-> MaxItems, comments |-> MaxComments,
     guides |-> MaxGuides]
VoiceLimits ==
    [messages |-> MaxVoiceMessages, items |-> MaxVoiceItems, comments |-> MaxComments,
     guides |-> MaxGuides]
FoldLimits ==
    [messages |-> MaxFoldMessages, items |-> MaxFoldItems,
     comments |-> MaxFoldComments, guides |-> MaxGuides]
GuideLimits ==
    [messages |-> MaxMessages, items |-> MaxItems, comments |-> MaxComments,
     guides |-> MaxGuideRows]

Max(S) == IF S = {} THEN 0 ELSE CHOOSE x \in S : \A y \in S : y <= x

(* FeedbackSession.comments / FeedbackSession.revision relationships *)
CommentsOf(s) == {c \in inline_comments : c.session_id = s}
RevisionsOf(s) == {r \in Ids(revisions) : revisions[r].session_id = s}
SessionsOf(p) == {s \in Ids(feedback_sessions) : feedback_sessions[s].poem_id = p}

(* rows of a session's comments in id order, as process_feedback passes them on *)
RECURSIVE SortedComments(_)
SortedComments(cs) ==
    IF cs = {} THEN <<>>
    ELSE LET c == CHOOSE x \in cs : \A y \in cs : x.id <= y.id
         IN <<c>> \o SortedComments(cs \ {c})

Init ==
    /\ guide_file = InitialGuide
    /\ guide_versions = <<>>
    /\ poems = <<>>
    /\ feedback_sessions = <<>>
    /\ inline_comments = {}
    /\ revisions = <<>>
    /\ voice_sessions = <<>>
    /\ conversation_messages = <<>>
    /\ extracted_feedback = <<>>
    /\ clock = 0
    /\ in_flight = <<>>
    /\ offset_calls = <<>>

(* ------------------------- guide_service.py ---------------------------- *)
(* get_current_guide: the latest version, or version 1 created from the file *)
LatestGuide(gv) == CHOOSE g \in {gv[i] : i \in Ids(gv)} :
                      \A i \in Ids(gv) : gv[i].version <= g.version
GuidesAfterGet(gv, file) ==
    IF gv # <<>> THEN gv ELSE <<[content |-> file, version |-> 1]>>
(* get_current_guide that returns the oldest version *)
CurrentGuideOldest(gv, file) == GuidesAfterGet(gv, file)[1]
CurrentGuide(gv, file) == LatestGuide(GuidesAfterGet(gv, file))

(* update_guide that numbers the new row by the number of rows before it *)
UpdateGuideRowsCounted(gv, content) ==
    Append(gv, [content |-> content, version |-> Len(gv)])

(* update_guide: a new row with version max + 1; the file is rewritten too *)
UpdateGuideRows(gv, content) ==
    Append(gv, [content |-> content,
                version |-> Max({gv[i].version : i \in Ids(gv)}) + 1])

(* get_guide_version that returns the latest version *)
GuideVersionContentLatest(gv, version) ==
    IF gv = <<>> THEN <<>> ELSE LatestGuide(gv).content

(* get_guide_version: the row with that version, or None *)
GuideVersionContent(gv, version) ==
    IF \E i \in Ids(gv) : gv[i].version = version
    THEN (CHOOSE g \in {gv[i] : i \in Ids(gv)} : g.version = version).content
    ELSE <<>>


(* scalar_one_or_none raises MultipleResultsFound on two rows of a version *)
GetGuideVersionRaises(gv, version) ==
    Cardinality({i \in Ids(gv) : gv[i].version = version}) > 1

(* --------------------------- routers/guide.py -------------------------- *)
(* POST /api/guide: a human edit of the guide *)
UpdateGuideWithin(lim, content) ==
    /\ Len(guide_versions) < lim.guides
    /\ guide_versions' = UpdateGuideRows(guide_versions, content)
    /\ guide_file' = content
    /\ UNCHANGED <<poems, feedback_sessions, inline_comments, revisions,
                   voice_sessions, conversation_messages, extracted_feedback, clock, in_flight, offset_calls>>

UpdateGuide(content) == UpdateGuideWithin(Limits, content)

(* POST /api/guide served while other requests are served: the handler      *)
(* yields at every await.  UpdateGuideReads is update_guide up to the       *)
(* result of its SELECT max(version) (guide_service.py 41-42), and          *)
(* UpdateGuideCommits is the rest of it: the new row numbered from what was  *)
(* read, the file, the commit (44-54).  No version is locked in between.    *)
Without(calls, i) == SubSeq(calls, 1, i - 1) \o SubSeq(calls, i + 1, Len(calls))

UpdateGuideReads(content) ==
    /\ Len(in_flight) < MaxInFlight
    /\ Len(guide_versions) + Len(in_flight) < MaxGuideRows
    /\ in_flight' = Append(in_flight,
           [content |-> content,
            version |-> Max({g.version : g \in {guide_versions[i] :
                                                 i \in Ids(guide_versions)}}) + 1,
            review |-> None])
    /\ UNCHANGED <<guide_file, guide_versions, poems, feedback_sessions,
                   inline_comments, revisions, voice_sessions,
                   conversation_messages, extracted_feedback, clock, offset_calls>>

UpdateGuideCommits(i) ==
    /\ i \in Ids(in_flight)
    /\ in_flight[i].review = None
    /\ guide_versions' = Append(guide_versions,
           [content |-> in_flight[i].content, version |-> in_flight[i].version])
    /\ guide_file' = in_flight[i].content
    /\ in_flight' = Without(in_flight, i)
    /\ UNCHANGED <<poems, feedback_sessions, inline_comments, revisions,
                   voice_sessions, conversation_messages, extracted_feedback, clock, offset_calls>>

(* --------------------------- routers/poems.py -------------------------- *)
(* POST /api/poems/generate: a draft poem against the current guide version *)
GenerateNewPoem(content) ==
    /\ Len(poems) < MaxPoems
    /\ guide_versions' = GuidesAfterGet(guide_versions, guide_file)
    /\ poems' = Append(poems,
                 [content |-> content,
                  guide_version |-> CurrentGuide(guide_versions, guide_file).version,
                  status |-> "draft"])
    /\ UNCHANGED <<guide_file, feedback_sessions, inline_comments, revisions,
                   voice_sessions, conversation_messages, extracted_feedback, clock, in_flight, offset_calls>>

(* -------------------------- routers/feedback.py ------------------------ *)
NewFeedbackSession(p) ==
    [poem_id |-> p, overall_feedback |-> None, rating |-> None,
     status |-> "in_progress"]

(* POST /api/poems/{poem_id}/feedback/start *)
StartFeedbackSessionReply(p) ==
    IF p \notin Ids(poems) THEN "NotFound"
    ELSE "ok"

StartFeedbackSession(p) ==
    IF StartFeedbackSessionReply(p) # "ok" THEN UNCHANGED vars
    ELSE /\ Len(feedback_sessions) < MaxSessions
         /\ poems' = [poems EXCEPT ![p].status = "under_review"]
         /\ feedback_sessions' = Append(feedback_sessions, NewFeedbackSession(p))
         /\ UNCHANGED <<guide_file, guide_versions, inline_comments, revisions,
                        voice_sessions, conversation_messages, extracted_feedback,
                        clock, in_flight, offset_calls>>

(* the next INTEGER PRIMARY KEY of inline_comments *)
NextCommentId == Max({c.id : c \in inline_comments}) + 1

(* add_comment without its status check (feedback.py 229-230 left out) *)
AddCommentReplyUngated(s, comment) ==
    IF s \notin Ids(feedback_sessions) THEN "NotFound" ELSE "ok"

(* POST /api/feedback/{session_id}/comment *)
AddCommentReply(s, comment) ==
    IF s \notin Ids(feedback_sessions) THEN "NotFound"
    ELSE IF feedback_sessions[s].status # "in_progress" THEN "InvalidState"
    ELSE "ok"

AddComment(s, comment) ==
    IF AddCommentReply(s, comment) # "ok" THEN UNCHANGED vars
    ELSE /\ Cardinality(inline_comments) < MaxComments
         /\ inline_comments' = inline_comments \cup
                {[id |-> NextCommentId, session_id |-> s,
                  highlighted_text |-> comment.highlighted_text,
                  start_offset |-> comment.start_offset,
                  end_offset |-> comment.end_offset,
                  comment |-> comment.comment]}
         /\ UNCHANGED <<guide_file, guide_versions, poems, feedback_sessions,
                        revisions, voice_sessions, conversation_messages,
                        extracted_feedback, clock, in_flight, offset_calls>>

(* DELETE /api/feedback/{session_id}/comment/{comment_id} *)
DeleteCommentReply(s, cid) ==
    IF ~ \E c \in inline_comments : c.id = cid /\ c.session_id = s THEN "NotFound"
    ELSE "ok"

DeleteComment(s, cid) ==
    IF DeleteCommentReply(s, cid) # "ok" THEN UNCHANGED vars
    ELSE /\ inline_comments' = {c \in inline_comments : c.id # cid}
         /\ UNCHANGED <<guide_file, guide_versions, poems, feedback_sessions,
                        revisions, voice_sessions, conversation_messages,
                        extracted_feedback, clock, in_flight, offset_calls>>

(* PUT /api/feedback/{session_id} *)
UpdateFeedbackReply(s, update) ==
    IF s \notin Ids(feedback_sessions) THEN "NotFound"
    ELSE IF feedback_sessions[s].status # "in_progress" THEN "InvalidState"
    ELSE "ok"

UpdateFeedback(s, update) ==
    IF UpdateFeedbackReply(s, update) # "ok" THEN UNCHANGED vars
    ELSE /\ feedback_sessions' =
              [feedback_sessions EXCEPT
                 ![s].overall_feedback =
                      IF update.overall_feedback # None
                      THEN update.overall_feedback ELSE @,
                 ![s].rating = IF update.rating # None THEN update.rating ELSE @]
         /\ UNCHANGED <<guide_file, guide_versions, poems, inline_comments,
                        revisions, voice_sessions, conversation_messages,
                        extracted_feedback, clock, in_flight, offset_calls>>

(* submit_feedback without its status check (feedback.py 313-314 left out) *)
SubmitFeedbackReplyUngated(s) ==
    IF s \notin Ids(feedback_sessions) THEN "NotFound" ELSE "ok"

(* POST /api/feedback/{session_id}/submit *)
SubmitFeedbackReply(s) ==
    IF s \notin Ids(feedback_sessions) THEN "NotFound"
    ELSE IF feedback_sessions[s].status # "in_progress" THEN "InvalidState"
    ELSE "ok"

SubmitFeedback(s) ==
    IF SubmitFeedbackReply(s) # "ok" THEN UNCHANGED vars
    ELSE /\ feedback_sessions' = [feedback_sessions EXCEPT ![s].status = "submitted"]
         /\ UNCHANGED <<guide_file, guide_versions, poems, inline_comments,
                        revisions, voice_sessions, conversation_messages,
                        extracted_feedback, clock, in_flight, offset_calls>>

(* ------------------------- services/mock_ai.py ------------------------- *)
(* The revision engine works on the characters of its texts: here a text   *)
(* is given letter by letter, and a fixed text the engine writes is one     *)
(* token.                                                                   *)
UpperLetters == <<"A", "B", "C", "D", "E", "F", "G", "H", "I", "J", "K", "L", "M", "N", "O", "P", "Q", "R", "S", "T", "U", "V", "W", "X", "Y", "Z">>
LowerLetters == <<"a", "b", "c", "d", "e", "f", "g", "h", "i", "j", "k", "l", "m", "n", "o", "p", "q", "r", "s", "t", "u", "v", "w", "x", "y", "z">>
Digits == <<"0", "1", "2", "3", "4", "5", "6", "7", "8", "9">>
(* str.lower of a letter *)
LowerChar(c) ==
    IF \E i \in 1..Len(UpperLetters) : UpperLetters[i] = c
    THEN LowerLetters[CHOOSE i \in 1..Len(UpperLetters) : UpperLetters[i] = c]
    ELSE c
(* the one character str.lower makes two of: U+0130, capital I with a dot  *)
(* above, becomes "i" and the combining dot U+0307                          *)
CapitalIWithDot == "U+0130"
(* the text with each letter in lower case, as re.IGNORECASE compares it *)
IgnoreCase(text) == [i \in 1..Len(text) |-> LowerChar(text[i])]
RECURSIVE LowerFrom(_, _)
LowerFrom(text, i) ==
    IF i > Len(text) THEN <<>>
    ELSE (IF text[i] = CapitalIWithDot THEN <<"i", "U+0307">>
          ELSE <<LowerChar(text[i])>>) \o LowerFrom(text, i + 1)
Lower(text) ==
    IF \A i \in 1..Len(text) : text[i] # CapitalIWithDot THEN IgnoreCase(text)
    ELSE LowerFrom(text, 1)
(* the characters \w matches, and the ones \s and str.split() take as space *)
WordChars ==
    {UpperLetters[i] : i \in 1..Len(UpperLetters)}
       \cup {LowerLetters[i] : i \in 1..Len(LowerLetters)}
       \cup {Digits[i] : i \in 1..Len(Digits)} \cup {"_"}
Spaces == {" ", "\n", "\t"}
Quotes == {"'", "\""}

(* text[i:].startswith(s) *)
StartsAt(text, i, s) ==
    /\ i >= 1
    /\ i + Len(s) - 1 <= Len(text)
    /\ SubSeq(text, i, i + Len(s) - 1) = s
(* text.find(s, i), counting from 1; 0 when s does not occur *)
FindFrom(text, s, i) ==
    IF \E j \in i..(Len(text) + 1) : StartsAt(text, j, s)
    THEN CHOOSE j \in i..(Len(text) + 1) :
            /\ StartsAt(text, j, s)
            /\ \A k \in i..(j - 1) : ~StartsAt(text, k, s)
    ELSE 0
(* s in text *)
Contains(text, s) == FindFrom(text, s, 1) # 0
(* the text with every occurrence of s, found from the left in `seen`,     *)
(* replaced by r; `seen` is the text itself (str.replace) or the text in    *)
(* lower case (re.sub with re.IGNORECASE)                                   *)
RECURSIVE ReplaceFrom(_, _, _, _, _)
ReplaceFrom(text, seen, s, r, i) ==
    IF i > Len(text) THEN <<>>
    ELSE IF StartsAt(seen, i, s)
    THEN r \o ReplaceFrom(text, seen, s, r, i + Len(s))
    ELSE <<text[i]>> \o ReplaceFrom(text, seen, s, r, i + 1)
(* text.replace(s, r), s not empty *)
Replace(text, s, r) == ReplaceFrom(text, text, s, r, 1)
(* re.compile(re.escape(word), re.IGNORECASE).sub(r, text) *)
SubIgnoreCase(text, word, r) ==
    ReplaceFrom(text, IgnoreCase(text), IgnoreCase(word), r, 1)

(* the end of the longest run of characters of `chars` that starts at i    *)
RECURSIVE RunEnd(_, _, _)
RunEnd(text, chars, i) ==
    IF i <= Len(text) /\ text[i] \in chars THEN RunEnd(text, chars, i + 1) ELSE i - 1
(* str.split(): the words between runs of space *)
RECURSIVE SplitFrom(_, _)
SplitFrom(text, i) ==
    IF i > Len(text) THEN <<>>
    ELSE IF text[i] \in Spaces THEN SplitFrom(text, i + 1)
    ELSE LET e == CHOOSE j \in i..Len(text) :
                     /\ \A k \in i..j : text[k] \notin Spaces
                     /\ (j = Len(text) \/ text[j + 1] \in Spaces)
         IN <<SubSeq(text, i, e)>> \o SplitFrom(text, e + 1)
Split(text) == SplitFrom(text, 1)
(* str.split('\n') *)
RECURSIVE SplitLinesFrom(_, _)
SplitLinesFrom(text, i) ==
    LET n == FindFrom(text, <<"\n">>, i)
    IN IF n = 0 THEN <<SubSeq(text, i, Len(text))>>
       ELSE <<SubSeq(text, i, n - 1)>> \o SplitLinesFrom(text, n + 1)
SplitLines(text) == SplitLinesFrom(text, 1)
(* sep.join(parts) *)
RECURSIVE JoinWith(_, _)
JoinWith(parts, sep) ==
    IF parts = <<>> THEN <<>>
    ELSE IF Len(parts) = 1 THEN parts[1]
    ELSE parts[1] \o sep \o JoinWith(Tail(parts), sep)

(* extract_forbidden_words.  The first six patterns are a directive, then  *)
(* (?:the )?(?:word )?['"]?(\w+)['"]? : the capture starts after the        *)
(* optional parts, the regex engine trying to take each before leaving it   *)
(* out.                                                                     *)
Directives ==
    <<<<"n", "e", "v", "e", "r", " ", "u", "s", "e", " ">>, <<"d", "o", "n", "'", "t", " ", "u", "s", "e", " ">>, <<"d", "o", "n", "t", " ", "u", "s", "e", " ">>, <<"r", "e", "m", "o", "v", "e", " ">>, <<"d", "e", "l", "e", "t", "e", " ">>,
      <<"a", "v", "o", "i", "d", " ">>, <<"g", "e", "t", " ", "r", "i", "d", " ", "o", "f", " ">>>>
(* where \w+ can start at c, after an optional quote: 0 when nowhere *)
WordStart(text, c) ==
    IF c <= Len(text) /\ text[c] \in Quotes /\ c + 1 <= Len(text)
       /\ text[c + 1] \in WordChars
    THEN c + 1
    ELSE IF c <= Len(text) /\ text[c] \in WordChars THEN c
    ELSE 0
(* the start of the capture of a directive whose words end before j *)
CaptureStart(text, j) ==
    LET the == IF StartsAt(text, j, <<"t", "h", "e", " ">>) THEN j + 4 ELSE 0
        the_word == IF the # 0 /\ StartsAt(text, the, <<"w", "o", "r", "d", " ">>) THEN the + 5 ELSE 0
        word == IF StartsAt(text, j, <<"w", "o", "r", "d", " ">>) THEN j + 5 ELSE 0
        tries == <<the_word, the, word, j>>
        good == {k \in 1..4 : tries[k] # 0 /\ WordStart(text, tries[k]) # 0}
    IN IF good = {} THEN 0
       ELSE WordStart(text, tries[CHOOSE k \in good : \A l \in good : k <= l])
(* re.findall of one directive pattern, scanning from i *)
RECURSIVE FindDirective(_, _, _)
FindDirective(text, directive, i) ==
    IF i > Len(text) THEN {}
    ELSE LET start == IF StartsAt(text, i, directive)
                      THEN CaptureStart(text, i + Len(directive)) ELSE 0
         IN IF start = 0 THEN FindDirective(text, directive, i + 1)
            ELSE LET end == RunEnd(text, WordChars, start)
                     next == IF end + 1 <= Len(text) /\ text[end + 1] \in Quotes
                             THEN end + 2 ELSE end + 1
                 IN {SubSeq(text, start, end)}
                       \cup FindDirective(text, directive, next)
(* (?:word |phrase )['"]?(\w+)['"]? (?:is |should be |needs to be )?        *)
(* (?:removed|deleted|avoided|forbidden)  and                               *)
(* ['"](\w+)['"]? (?:is |should be )?(?:too |overused|cliche|forbidden|banned) *)
(* the end of the match of (?:links)?(?:verdicts) at i, 0 when none         *)
VerdictEnd(text, i, links, verdicts) ==
    LET starts == {i} \cup {i + Len(links[k]) : k \in {l \in 1..Len(links) :
                                                         StartsAt(text, i, links[l])}}
        good == {s \in starts : \E k \in 1..Len(verdicts) : StartsAt(text, s, verdicts[k])}
    IN IF good = {} THEN 0
       ELSE LET s == CHOOSE x \in good : \A y \in good : x >= y
                k == CHOOSE x \in 1..Len(verdicts) :
                        /\ StartsAt(text, s, verdicts[x])
                        /\ \A y \in 1..(x - 1) : ~StartsAt(text, s, verdicts[y])
            IN s + Len(verdicts[k])
RECURSIVE FindVerdict(_, _, _, _, _, _)
FindVerdict(text, leads, quoted, links, verdicts, i) ==
    IF i > Len(text) THEN {}
    ELSE LET lead == {k \in 1..Len(leads) : StartsAt(text, i, leads[k])}
             after == IF lead = {} THEN 0
                      ELSE i + Len(leads[CHOOSE k \in lead : \A l \in lead : k <= l])
             start == IF after = 0 THEN 0
                      ELSE IF quoted
                      THEN (IF after <= Len(text) /\ text[after] \in WordChars
                            THEN after ELSE 0)
                      ELSE WordStart(text, after)
             end == IF start = 0 THEN 0 ELSE RunEnd(text, WordChars, start)
             space == IF start = 0 THEN 0
                      ELSE IF end + 1 <= Len(text) /\ text[end + 1] \in Quotes
                              /\ end + 2 <= Len(text) /\ text[end + 2] = " "
                      THEN end + 2
                      ELSE IF end + 1 <= Len(text) /\ text[end + 1] = " "
                      THEN end + 1 ELSE 0
             stop == IF space = 0 THEN 0
                     ELSE VerdictEnd(text, space + 1, links, verdicts)
         IN IF stop = 0
            THEN FindVerdict(text, leads, quoted, links, verdicts, i + 1)
            ELSE {SubSeq(text, start, end)}
                    \cup FindVerdict(text, leads, quoted, links, verdicts, stop)

ExtractForbiddenWords(text) ==
    LET text_lower == Lower(text)
    IN UNION {FindDirective(text_lower, Directives[k], 1) : k \in 1..Len(Directives)}
          \cup FindVerdict(text_lower, <<<<"w", "o", "r", "d", " ">>, <<"p", "h", "r", "a", "s", "e", " ">>>>, FALSE,
                           <<<<"i", "s", " ">>, <<"s", "h", "o", "u", "l", "d", " ", "b", "e", " ">>, <<"n", "e", "e", "d", "s", " ", "t", "o", " ", "b", "e", " ">>>>,
                           <<<<"r", "e", "m", "o", "v", "e", "d">>, <<"d", "e", "l", "e", "t", "e", "d">>, <<"a", "v", "o", "i", "d", "e", "d">>, <<"f", "o", "r", "b", "i", "d", "d", "e", "n">>>>, 1)
          \cup FindVerdict(text_lower, <<<<"'">>, <<"\"">>>>, TRUE,
                           <<<<"i", "s", " ">>, <<"s", "h", "o", "u", "l", "d", " ", "b", "e", " ">>>>,
                           <<<<"t", "o", "o", " ">>, <<"o", "v", "e", "r", "u", "s", "e", "d">>, <<"c", "l", "i", "c", "h", "e">>, <<"f", "o", "r", "b", "i", "d", "d", "e", "n">>,
                             <<"b", "a", "n", "n", "e", "d">>>>, 1)
(* find_replacement: the replacement table, the empty text for other words *)
Replacements ==
    <<<<<<"h", "e", "a", "r", "t", "b", "e", "a", "t", "s">>, <<"b", "r", "e", "a", "t", "h", "s">>>>,
      <<<<"h", "e", "a", "r", "t", "b", "e", "a", "t">>, <<"b", "r", "e", "a", "t", "h">>>>,
      <<<<"h", "e", "a", "r", "t">>, <<"c", "h", "e", "s", "t">>>>,
      <<<<"h", "e", "a", "r", "t", "s">>, <<"c", "h", "e", "s", "t", "s">>>>,
      <<<<"m", "o", "m", "e", "n", "t", "s">>, <<"b", "r", "e", "a", "t", "h", "s">>>>,
      <<<<"m", "o", "m", "e", "n", "t">>, <<"b", "r", "e", "a", "t", "h">>>>,
      <<<<"s", "o", "u", "l">>, <<"s", "e", "l", "f">>>>,
      <<<<"s", "o", "u", "l", "s">>, <<"s", "e", "l", "v", "e", "s">>>>,
      <<<<"b", "e", "a", "u", "t", "i", "f", "u", "l">>, <<"s", "t", "r", "i", "k", "i", "n", "g">>>>,
      <<<<"b", "e", "a", "u", "t", "y">>, <<"g", "r", "a", "c", "e">>>>,
      <<<<"l", "o", "v", "e">>, <<"l", "o", "n", "g", "i", "n", "g">>>>,
      <<<<"l", "o", "v", "e", "d">>, <<"h", "e", "l", "d", " ", "d", "e", "a", "r">>>>,
      <<<<"s", "i", "l", "e", "n", "c", "e">>, <<"s", "t", "i", "l", "l", "n", "e", "s", "s">>>>,
      <<<<"s", "i", "l", "e", "n", "t">>, <<"s", "t", "i", "l", "l">>>>,
      <<<<"s", "a", "c", "r", "e", "d">>, <<"r", "a", "r", "e">>>>,
      <<<<"o", "r", "d", "i", "n", "a", "r", "y">>, <<"c", "o", "m", "m", "o", "n">>>>,
      <<<<"e", "t", "e", "r", "n", "a", "l">>, <<"l", "a", "s", "t", "i", "n", "g">>>>,
      <<<<"e", "t", "e", "r", "n", "i", "t", "y">>, <<"l", "o", "n", "g", " ", "y", "e", "a", "r", "s">>>>,
      <<<<"f", "o", "r", "e", "v", "e", "r">>, <<"a", "l", "w", "a", "y", "s">>>>,
      <<<<"d", "r", "e", "a", "m">>, <<"v", "i", "s", "i", "o", "n">>>>,
      <<<<"d", "r", "e", "a", "m", "s">>, <<"v", "i", "s", "i", "o", "n", "s">>>>,
      <<<<"m", "a", "g", "i", "c", "a", "l">>, <<"s", "t", "r", "a", "n", "g", "e">>>>,
      <<<<"m", "a", "g", "i", "c">>, <<"w", "o", "n", "d", "e", "r">>>>,
      <<<<"p", "e", "r", "f", "e", "c", "t">>, <<"w", "h", "o", "l", "e">>>>,
      <<<<"p", "e", "r", "f", "e", "c", "t", "i", "o", "n">>, <<"w", "h", "o", "l", "e", "n", "e", "s", "s">>>>,
      <<<<"i", "n", "f", "i", "n", "i", "t", "e">>, <<"v", "a", "s", "t">>>>,
      <<<<"i", "n", "f", "i", "n", "i", "t", "y">>, <<"v", "a", "s", "t", "n", "e", "s", "s">>>>,
      <<<<"d", "e", "s", "t", "i", "n", "y">>, <<"p", "a", "t", "h">>>>,
      <<<<"f", "a", "t", "e">>, <<"c", "h", "a", "n", "c", "e">>>>,
      <<<<"t", "e", "a", "r", "s">>, <<"s", "a", "l", "t", " ", "w", "a", "t", "e", "r">>>>,
      <<<<"t", "e", "a", "r">>, <<"d", "r", "o", "p">>>>,
      <<<<"c", "r", "y">>, <<"w", "e", "e", "p">>>>,
      <<<<"c", "r", "y", "i", "n", "g">>, <<"w", "e", "e", "p", "i", "n", "g">>>>,
      <<<<"q", "u", "i", "e", "t">>, <<"s", "t", "i", "l", "l">>>>,
      <<<<"s", "o", "f", "t">>, <<"g", "e", "n", "t", "l", "e">>>>,
      <<<<"d", "a", "r", "k">>, <<"d", "i", "m">>>>,
      <<<<"l", "i", "g", "h", "t">>, <<"g", "l", "o", "w">>>>,
      <<<<"t", "i", "m", "e">>, <<"h", "o", "u", "r", "s">>>>,
      <<<<"s", "p", "a", "c", "e">>, <<"d", "i", "s", "t", "a", "n", "c", "e">>>>>>
FindReplacement(word) ==
    IF \E k \in 1..Len(Replacements) : Replacements[k][1] = Lower(word)
    THEN Replacements[CHOOSE k \in 1..Len(Replacements) :
                         Replacements[k][1] = Lower(word)][2]
    ELSE <<>>

(* any(word in text for word in words) *)
AnyOf(words, text) == \E k \in 1..Len(words) : Contains(text, words[k])
(* the characters the engine writes that are not ASCII *)
Arrow == " -> "
Bullet == "* "
EmDash == "--"

(* the state of generate_mock_revision: revised_poem, guide_additions and   *)
(* applied_changes                                                          *)
(* the engine's first state with a change already noted *)
RevisingNoted(poem) == [revised_poem |-> poem, guide_additions |-> <<>>,
                        applied_changes |-> <<<<"Reviewed">>>>]
(* lines 224-227: the poem, the changes and the guide rules before any pass *)
Revising(poem) == [revised_poem |-> poem, guide_additions |-> <<>>,
                   applied_changes |-> <<>>]
NeverUse(word) == <<"- Never use the word \"">> \o word \o <<"\"">>

(* lines 251-258: the forbidden words of one comment, in the order of the   *)
(* list made from the set                                                   *)
RECURSIVE RemoveCommentWords(_, _)
RemoveCommentWords(acc, words) ==
    IF words = <<>> THEN acc
    ELSE LET word == Head(words)
             replacement == FindReplacement(word)
         IN RemoveCommentWords(
               IF Contains(Lower(acc.revised_poem), Lower(word))
               THEN [revised_poem |-> SubIgnoreCase(acc.revised_poem, word, replacement),
                     applied_changes |-> Append(acc.applied_changes,
                         <<"Removed '">> \o word \o <<"'", Arrow, "replaced with '">>
                            \o replacement \o <<"'">>),
                     guide_additions |-> Append(acc.guide_additions, NeverUse(word))]
               ELSE acc,
               Tail(words))

(* lines 267-273: the words of a short highlighted phrase *)
RECURSIVE RemoveHighlighted(_, _)
RemoveHighlighted(acc, words) ==
    IF words = <<>> THEN acc
    ELSE LET word == Head(words)
             replacement == FindReplacement(word)
         IN RemoveHighlighted(
               IF Len(word) > 3
               THEN [revised_poem |-> SubIgnoreCase(acc.revised_poem, word, replacement),
                     applied_changes |-> Append(acc.applied_changes,
                         <<"Removed '">> \o word \o <<"'", Arrow, "'">>
                            \o replacement \o <<"'">>),
                     guide_additions |-> Append(acc.guide_additions,
                         <<"- Avoid the word \"">> \o word \o <<"\"">>)]
               ELSE acc,
               Tail(words))

(* line 283: re.search of                                                   *)
(* (?:change|replace).*?(?:to|with)\s+["']?(\w+(?:\s+\w+)?)["']?            *)
(* the capture, or <<>> when the pattern does not match                     *)
ChangeTargetAt(text, j) ==
    LET link == IF StartsAt(text, j, <<"t", "o">>) THEN j + 2
                ELSE IF StartsAt(text, j, <<"w", "i", "t", "h">>) THEN j + 4 ELSE 0
        gap == IF link = 0 \/ link > Len(text) \/ text[link] \notin Spaces THEN 0
               ELSE RunEnd(text, Spaces, link)
        start == IF gap = 0 THEN 0 ELSE WordStart(text, gap + 1)
        first == IF start = 0 THEN 0 ELSE RunEnd(text, WordChars, start)
        more == IF first = 0 \/ first + 1 > Len(text) \/ text[first + 1] \notin Spaces
                THEN 0
                ELSE LET g == RunEnd(text, Spaces, first + 1)
                     IN IF g + 1 <= Len(text) /\ text[g + 1] \in WordChars
                        THEN RunEnd(text, WordChars, g + 1) ELSE 0
    IN IF start = 0 THEN <<>>
       ELSE SubSeq(text, start, IF more # 0 THEN more ELSE first)
ChangeTarget(text) ==
    LET verbs == <<<<"c", "h", "a", "n", "g", "e">>, <<"r", "e", "p", "l", "a", "c", "e">>>>
        (* a match: the verb at i, then no newline up to the link at j *)
        matches == {<<i, j>> \in (1..Len(text)) \X (1..Len(text)) :
                       /\ \E k \in 1..2 :
                             /\ StartsAt(text, i, verbs[k])
                             /\ j >= i + Len(verbs[k])
                             /\ \A l \in (i + Len(verbs[k]))..(j - 1) : text[l] # "\n"
                       /\ ChangeTargetAt(text, j) # <<>>}
    IN IF matches = {} THEN <<>>
       ELSE LET m == CHOOSE x \in matches :
                        \A y \in matches :
                           x[1] < y[1] \/ (x[1] = y[1] /\ x[2] <= y[2])
            IN ChangeTargetAt(text, m[2])

(* lines 296-317 and 321-338: the first entry of a table whose word is in   *)
(* the highlighted text                                                     *)
ActiveWords ==
    <<<<<<"q", "u", "i", "e", "t">>, <<"i", "n", "t", "e", "n", "t">>>>, <<<<"s", "t", "i", "l", "l">>, <<"p", "o", "i", "s", "e", "d">>>>, <<<<"w", "a", "i", "t", "s">>, <<"w", "a", "t", "c", "h", "e", "s">>>>,
      <<<<"s", "p", "i", "l", "l", "s">>, <<"s", "t", "r", "i", "k", "e", "s">>>>, <<<<"u", "n", "f", "o", "l", "d", "s">>, <<"p", "u", "l", "s", "e", "s">>>>, <<<<"s", "o", "f", "t">>, <<"k", "e", "e", "n">>>>,
      <<<<"s", "m", "a", "l", "l">>, <<"s", "h", "a", "r", "p">>>>>>
ConcreteWords ==
    <<<<<<"f", "o", "r", "m">>, <<"s", "i", "l", "h", "o", "u", "e", "t", "t", "e">>>>, <<<<"p", "r", "e", "s", "e", "n", "c", "e">>, <<"s", "h", "a", "d", "o", "w">>>>,
      <<<<"m", "o", "m", "e", "n", "t">>, <<"b", "r", "e", "a", "t", "h">>>>, <<<<"g", "e", "s", "t", "u", "r", "e">>, <<"m", "o", "v", "e", "m", "e", "n", "t">>>>>>
FirstIn(table, highlighted) ==
    LET found == {k \in 1..Len(table) : Contains(Lower(highlighted), table[k][1])}
    IN IF found = {} THEN 0 ELSE CHOOSE k \in found : \A l \in found : k <= l

(* list(set(words)): the words of a set in the order the hash table gives, *)
(* one order of all the words for the whole call                            *)
Orders(words) ==
    {order \in [1..Cardinality(words) -> words] :
        \A i, j \in 1..Cardinality(words) : i # j => order[i] # order[j]}
RECURSIVE Ordered(_, _)
Ordered(words, order) ==
    IF order = <<>> THEN <<>>
    ELSE (IF Head(order) \in words THEN <<Head(order)>> ELSE <<>>)
            \o Ordered(words, Tail(order))

(* lines 239-355: one inline comment *)
ReviseComment(acc, comment, order) ==
    LET highlighted == comment.highlighted_text
        feedback_text == Lower(comment.comment)
        comment_forbidden == ExtractForbiddenWords(feedback_text)
        words_in_highlight == Split(highlighted)
        quoted == <<"'">> \o highlighted \o <<"'">>
    IN IF highlighted = <<>> THEN acc
       ELSE IF comment_forbidden # {}
       THEN RemoveCommentWords(acc, Ordered(comment_forbidden, order))
       ELSE IF AnyOf(<<<<"r", "e", "m", "o", "v", "e">>, <<"d", "e", "l", "e", "t", "e">>, <<"g", "e", "t", " ", "r", "i", "d">>, <<"t", "a", "k", "e", " ", "o", "u", "t">>, <<"c", "u", "t">>>>,
                     feedback_text)
       THEN IF Len(words_in_highlight) <= 3
            THEN RemoveHighlighted(acc, words_in_highlight)
            ELSE [acc EXCEPT
                    !.revised_poem =
                        Replace(@, highlighted,
                                JoinWith(SubSeq(words_in_highlight, 1, 2), <<" ">>)
                                   \o <<EmDash>>),
                    !.applied_changes = Append(@, <<"Shortened ">> \o quoted)]
       ELSE IF Contains(feedback_text, <<"c", "h", "a", "n", "g", "e">>) \/ Contains(feedback_text, <<"r", "e", "p", "l", "a", "c", "e">>)
       THEN LET new_text == ChangeTarget(feedback_text)
                replacement == IF words_in_highlight # <<>>
                               THEN FindReplacement(words_in_highlight[1])
                               ELSE <<".", ".", ".">>
            IN IF new_text # <<>>
               THEN [acc EXCEPT
                       !.revised_poem = Replace(@, highlighted, new_text),
                       !.applied_changes =
                           Append(@, <<"Changed ">> \o quoted \o <<Arrow, "'">>
                                        \o new_text \o <<"'">>)]
               ELSE [acc EXCEPT
                       !.revised_poem = Replace(@, highlighted, replacement),
                       !.applied_changes = Append(@, <<"Replaced ">> \o quoted)]
       ELSE IF AnyOf(<<<<"a", "c", "t", "i", "v", "e">>, <<"e", "n", "e", "r", "g", "y">>, <<"d", "y", "n", "a", "m", "i", "c">>, <<"m", "o", "v", "e", "m", "e", "n", "t">>, <<"s", "t", "r", "o", "n", "g", "e", "r">>>>,
                     feedback_text)
       THEN LET k == FirstIn(ActiveWords, highlighted)
                new_highlighted ==
                    SubIgnoreCase(highlighted, ActiveWords[k][1], ActiveWords[k][2])
            IN [revised_poem |->
                   IF k # 0 THEN Replace(acc.revised_poem, highlighted, new_highlighted)
                   ELSE Replace(acc.revised_poem, highlighted,
                                highlighted \o <<",", " ", "a", "l", "i", "v", "e">>),
                applied_changes |->
                   Append(acc.applied_changes,
                          IF k # 0
                          THEN <<"Made ">> \o quoted \o <<" more active", Arrow, "'">>
                                  \o new_highlighted \o <<"'">>
                          ELSE <<"Added energy to ">> \o quoted),
                guide_additions |->
                   Append(acc.guide_additions,
                          <<"- Use active verbs and dynamic imagery">>)]
       ELSE IF AnyOf(<<<<"c", "o", "n", "c", "r", "e", "t", "e">>, <<"s", "p", "e", "c", "i", "f", "i", "c">>, <<"d", "e", "t", "a", "i", "l">>, <<"s", "e", "n", "s", "o", "r", "y">>, <<"v", "i", "v", "i", "d">>,
                       <<"v", "a", "g", "u", "e">>>>, feedback_text)
       THEN LET k == FirstIn(ConcreteWords, highlighted)
                new_highlighted ==
                    SubIgnoreCase(highlighted, ConcreteWords[k][1], ConcreteWords[k][2])
            IN [revised_poem |->
                   IF k # 0 THEN Replace(acc.revised_poem, highlighted, new_highlighted)
                   ELSE acc.revised_poem,
                applied_changes |->
                   Append(acc.applied_changes,
                          IF k # 0
                          THEN <<"Made ">> \o quoted \o <<" more concrete", Arrow, "'">>
                                  \o new_highlighted \o <<"'">>
                          ELSE <<"Reviewed ">> \o quoted \o <<" for concreteness">>),
                guide_additions |->
                   Append(acc.guide_additions,
                          <<"- Ground abstract ideas in physical, sensory details">>)]
       ELSE IF AnyOf(<<<<"c", "l", "i", "c", "h", "e">>, <<"o", "v", "e", "r", "u", "s", "e", "d">>, <<"t", "i", "r", "e", "d">>, <<"g", "e", "n", "e", "r", "i", "c">>, <<"t", "r", "i", "t", "e">>>>,
                     feedback_text)
       THEN LET main_word == IF words_in_highlight # <<>>
                             THEN words_in_highlight[1] ELSE highlighted
                replacement == FindReplacement(main_word)
                replaced == replacement # <<"[">> \o main_word \o <<"]">>
            IN [revised_poem |->
                   IF replaced
                   THEN SubIgnoreCase(acc.revised_poem, main_word, replacement)
                   ELSE acc.revised_poem,
                applied_changes |->
                   Append(acc.applied_changes,
                          IF replaced
                          THEN <<"Replaced cliche '">> \o main_word \o <<"'", Arrow, "'">>
                                  \o replacement \o <<"'">>
                          ELSE <<"Flagged ">> \o quoted \o <<" as cliche">>),
                guide_additions |->
                   Append(acc.guide_additions,
                          <<"- Avoid cliched words like \"">> \o main_word \o <<"\"">>)]
       ELSE [acc EXCEPT
               !.applied_changes =
                   Append(@, <<"Reviewed ">> \o quoted \o <<" based on feedback: ">>
                                \o SubSeq(comment.comment, 1,
                                          IF Len(comment.comment) < 50
                                          THEN Len(comment.comment) ELSE 50))]

RECURSIVE ReviseComments(_, _, _)
ReviseComments(acc, comments, order) ==
    IF comments = <<>> THEN acc
    ELSE ReviseComments(ReviseComment(acc, Head(comments), order), Tail(comments), order)

(* lines 358-366: the forbidden words of all the feedback *)
RemovedForbidden(word) == <<"Removed forbidden word '">> \o word \o <<"'">>
RECURSIVE RemoveForbidden(_, _)
RemoveForbidden(acc, words) ==
    IF words = <<>> THEN acc
    ELSE LET word == Head(words)
             replacement == FindReplacement(word)
             revised_poem == SubIgnoreCase(acc.revised_poem, word, replacement)
         IN RemoveForbidden(
               IF ~Contains(Lower(acc.revised_poem), Lower(word)) THEN acc
               ELSE IF revised_poem = acc.revised_poem THEN acc
               ELSE [revised_poem |-> revised_poem,
                     applied_changes |-> Append(acc.applied_changes,
                         RemovedForbidden(word) \o <<Arrow, "'">> \o replacement
                            \o <<"'">>),
                     guide_additions |-> Append(acc.guide_additions, NeverUse(word))],
               Tail(words))

(* lines 374-381: the forbidden words of the overall feedback *)
RECURSIVE RemoveOverall(_, _)
RemoveOverall(acc, words) ==
    IF words = <<>> THEN acc
    ELSE LET word == Head(words)
             replacement == FindReplacement(word)
             noted == \E k \in 1..Len(acc.applied_changes) :
                         Contains(acc.applied_changes[k], RemovedForbidden(word))
         IN RemoveOverall(
               IF ~Contains(Lower(acc.revised_poem), Lower(word)) THEN acc
               ELSE [revised_poem |-> SubIgnoreCase(acc.revised_poem, word, replacement),
                     applied_changes |->
                        IF noted THEN acc.applied_changes
                        ELSE Append(acc.applied_changes,
                                <<"Removed '">> \o word
                                   \o <<"' per overall feedback", Arrow, "'">>
                                   \o replacement \o <<"'">>),
                     guide_additions |->
                        IF noted THEN acc.guide_additions
                        ELSE Append(acc.guide_additions, NeverUse(word))],
               Tail(words))

(* lines 383-384: energy asked for in the overall feedback *)
BuildEnergy(acc, feedback_lower) ==
    IF Contains(feedback_lower, <<"e", "n", "e", "r", "g", "y">>)
       \/ Contains(feedback_lower, <<"d", "y", "n", "a", "m", "i", "c">>)
    THEN [acc EXCEPT !.guide_additions =
             Append(@, <<"- Build energy through active verbs and punctuation">>)]
    ELSE acc
(* lines 386-391: brevity asked for in the overall feedback *)
PreferBrevity(acc, feedback_lower) ==
    LET lines == SelectSeq(SplitLines(acc.revised_poem),
                           LAMBDA l : \E i \in 1..Len(l) : l[i] \notin Spaces)
    IN IF Contains(feedback_lower, <<"s", "h", "o", "r", "t", "e", "r">>)
          \/ Contains(feedback_lower, <<"c", "o", "n", "c", "i", "s", "e">>)
       THEN [revised_poem |->
                IF Len(lines) > 6 THEN JoinWith(SubSeq(lines, 1, 6), <<"\n">>)
                ELSE acc.revised_poem,
             applied_changes |->
                IF Len(lines) > 6
                THEN Append(acc.applied_changes, <<"Trimmed poem for conciseness">>)
                ELSE acc.applied_changes,
             guide_additions |->
                Append(acc.guide_additions,
                       <<"- Prefer brevity; cut lines that don't earn their place">>)]
       ELSE acc
(* lines 369-391: the overall feedback *)
ReviseOverall(acc, feedback, order) ==
    IF feedback = <<>> THEN acc
    ELSE PreferBrevity(
            BuildEnergy(
               RemoveOverall(acc, Ordered(ExtractForbiddenWords(feedback), order)),
               Lower(feedback)),
            Lower(feedback))

(* list(dict.fromkeys(lines)): the lines without their repetitions *)
RECURSIVE Unique(_)
Unique(lines) ==
    IF lines = <<>> THEN <<>>
    ELSE LET rest == Unique(SubSeq(lines, 1, Len(lines) - 1))
             last == lines[Len(lines)]
         IN IF \E k \in 1..Len(rest) : rest[k] = last THEN rest ELSE Append(rest, last)
RECURSIVE Bulleted(_)
Bulleted(lines) ==
    IF lines = <<>> THEN <<>>
    ELSE IF Len(lines) = 1 THEN <<Bullet>> \o lines[1]
    ELSE <<Bullet>> \o lines[1] \o <<"\n">> \o Bulleted(Tail(lines))
NoChangeRationale ==
    <<"Feedback was reviewed but no direct changes could be applied. The guide updates reflect the SME's preferences.">>

(* lines 229-236: the text the forbidden words are looked for in *)
RECURSIVE AllFeedbackText(_, _)
AllFeedbackText(feedback, comments) ==
    IF comments = <<>> THEN feedback
    ELSE AllFeedbackText(feedback \o <<" ">> \o Head(comments).comment
                            \o <<" ">> \o Head(comments).highlighted_text,
                         Tail(comments))
(* every word the call makes a list of a set of *)
ForbiddenOf(feedback, comments) ==
    ExtractForbiddenWords(AllFeedbackText(feedback, comments))
       \cup ExtractForbiddenWords(feedback)
       \cup UNION {ExtractForbiddenWords(Lower(comments[k].comment)) :
                   k \in 1..Len(comments)}

(* lines 393-411: the result made of the poem, the rules and the changes *)
MockRevision(final) ==
    [revised_poem |-> final.revised_poem,
     proposed_guide_changes |->
        IF final.guide_additions = <<>> THEN None
        ELSE Some(<<"## SME Feedback Rules\n">>
                     \o JoinWith(Unique(final.guide_additions), <<"\n">>)),
     rationale |->
        Some(IF final.applied_changes # <<>>
             THEN <<"Based on SME feedback, the following changes were made:\n">>
                     \o Bulleted(final.applied_changes)
                     \o (IF final.guide_additions # <<>>
                         THEN <<"\n\nThe proposed guide changes will prevent similar issues in future poems.">>
                         ELSE <<>>)
             ELSE NoChangeRationale)]

(* generate_mock_revision: one result for each order list(set(...)) may     *)
(* give the forbidden words                                                 *)
GenerateMockRevision(original_poem, feedback, comments, guide) ==
    {MockRevision(
        ReviseOverall(
           RemoveForbidden(
              ReviseComments(Revising(original_poem), comments, order),
              Ordered(ExtractForbiddenWords(AllFeedbackText(feedback, comments)),
                      order)),
           feedback, order)) :
        order \in Orders(ForbiddenOf(feedback, comments))}

(* services/ai_reviser.py generate_revision: what the revision engine (the  *)
(* mock rule engine or the live model) may return for a poem and feedback   *)
RevisedText(original_poem) == original_poem \o <<"revised">>
ProposedRules == <<"rule">>
GenerateRevision(original_poem, feedback, comments, guide) ==
    {[revised_poem |-> original_poem, proposed_guide_changes |-> None,
      rationale |-> Some(<<"no_change">>)],
     [revised_poem |-> RevisedText(original_poem),
      proposed_guide_changes |-> Some(ProposedRules),
      rationale |-> Some(<<"changes">>)]}

NewRevision(s, p, data) ==
    [session_id |-> s, original_poem_id |-> p,
     revised_poem |-> data.revised_poem,
     proposed_guide_changes |-> data.proposed_guide_changes,
     rationale |-> data.rationale,
     poem_accepted |-> 0, guide_changes_accepted |-> 0]

(* process_feedback without its status check (feedback.py 340-341 left out) *)
ProcessFeedbackReplyUngated(s) ==
    IF s \notin Ids(feedback_sessions) THEN "NotFound" ELSE "ok"

(* POST /api/feedback/{session_id}/process *)
ProcessFeedbackReply(s) ==
    IF s \notin Ids(feedback_sessions) THEN "NotFound"
    ELSE IF feedback_sessions[s].status # "submitted" THEN "InvalidState"
    ELSE "ok"

(* the guide content process_feedback passes on (feedback.py 347-348) *)
ProcessGuide(s) ==
    GuideVersionContent(guide_versions,
                        poems[feedback_sessions[s].poem_id].guide_version)

(* generate_revision: the rule engine when no API key is configured        *)
(* (settings.use_mock_ai), the live model otherwise                         *)
GenerateRevisionWith(use_mock_ai, original_poem, feedback, comments, guide) ==
    IF use_mock_ai
    THEN GenerateMockRevision(original_poem, feedback, comments, guide)
    ELSE GenerateRevision(original_poem, feedback, comments, guide)

(* process_feedback that marks the session processed and stores no        *)
(* Revision (feedback.py 369-376 left out)                                  *)
ProcessFeedbackStoresNothing(use_mock_ai, s) ==
    IF ProcessFeedbackReply(s) # "ok" THEN UNCHANGED vars
    ELSE /\ feedback_sessions' = [feedback_sessions EXCEPT ![s].status = "processed"]
         /\ UNCHANGED <<guide_file, guide_versions, poems, inline_comments,
                        revisions, voice_sessions, conversation_messages,
                        extracted_feedback, clock, in_flight, offset_calls>>

(* POST /api/feedback/{session_id}/process under a setting of use_mock_ai *)
ProcessFeedbackWith(use_mock_ai, s) ==
    IF ProcessFeedbackReply(s) # "ok" THEN UNCHANGED vars
    ELSE IF RevisionsOf(s) # {} THEN UNCHANGED vars
    ELSE IF GetGuideVersionRaises(guide_versions,
                                  poems[feedback_sessions[s].poem_id].guide_version)
    THEN UNCHANGED vars
    ELSE LET session == feedback_sessions[s]
             poem == poems[session.poem_id]
         IN \E data \in GenerateRevisionWith(
                    use_mock_ai, poem.content, OrEmpty(session.overall_feedback),
                    SortedComments(CommentsOf(s)), ProcessGuide(s)) :
              /\ revisions' = Append(revisions, NewRevision(s, session.poem_id, data))
              /\ feedback_sessions' =
                     [feedback_sessions EXCEPT ![s].status = "processed"]
              /\ UNCHANGED <<guide_file, guide_versions, poems, inline_comments,
                             voice_sessions, conversation_messages,
                             extracted_feedback, clock, in_flight, offset_calls>>

(* the id of the Revision an accepted process request returns *)
ProcessFeedbackReturns(s) ==
    IF RevisionsOf(s) # {} THEN Val(RevisionsOf(s)) ELSE Len(revisions) + 1

(* process_feedback without the look for a stored revision (feedback.py     *)
(* 344-345 left out), on a table whose session_id is not unique             *)
ProcessFeedbackRegenerates(s) ==
    /\ s \in Ids(feedback_sessions)
    /\ feedback_sessions[s].status = "submitted"
    /\ \E data \in GenerateRevision(
              poems[feedback_sessions[s].poem_id].content,
              OrEmpty(feedback_sessions[s].overall_feedback),
              SortedComments(CommentsOf(s)),
              GuideVersionContent(guide_versions,
                                  poems[feedback_sessions[s].poem_id].guide_version)) :
         revisions' = Append(revisions,
                             NewRevision(s, feedback_sessions[s].poem_id, data))
    /\ feedback_sessions' = [feedback_sessions EXCEPT ![s].status = "processed"]
    /\ UNCHANGED <<guide_file, guide_versions, poems, inline_comments,
                   voice_sessions, conversation_messages, extracted_feedback, clock, in_flight, offset_calls>>

ProcessFeedback(s) == ProcessFeedbackWith(FALSE, s)

(* -------------------------- routers/revisions.py ----------------------- *)
(* POST /api/revisions/{revision_id}/review *)
ReviewRevisionReply(r, review) ==
    IF r \notin Ids(revisions) THEN "NotFound"
    ELSE "ok"

(* review_revision that applies the guide changes only with an accepted poem *)
ReviewRevisionCoupled(lim, r, review) ==
    IF ReviewRevisionReply(r, review) # "ok" THEN UNCHANGED vars
    ELSE LET revision == revisions[r]
             p == revision.original_poem_id
             poem_accepted == IF review.accept_poem THEN 1 ELSE -1
             final_poem == IF Truthy(review.edited_poem)
                           THEN Val(review.edited_poem) ELSE revision.revised_poem
             apply_guide == review.accept_guide_changes /\ review.accept_poem
                            /\ Truthy(revision.proposed_guide_changes)
             final_changes == IF Truthy(review.edited_guide_changes)
                              THEN Val(review.edited_guide_changes)
                              ELSE Val(revision.proposed_guide_changes)
             new_content == CurrentGuide(guide_versions, guide_file).content
                            \o <<"\n\n">> \o final_changes
         IN /\ apply_guide => Len(guide_versions) < lim.guides
            /\ revisions' =
                 [revisions EXCEPT
                    ![r].poem_accepted = poem_accepted,
                    ![r].revised_poem = IF review.accept_poem THEN final_poem ELSE @,
                    ![r].guide_changes_accepted =
                        IF apply_guide THEN 1
                        ELSE IF review.accept_guide_changes = FALSE THEN -1 ELSE @]
            /\ poems' = IF poem_accepted = 1
                        THEN [poems EXCEPT ![p].status = "accepted"]
                        ELSE poems
            /\ guide_versions' =
                 IF apply_guide
                 THEN UpdateGuideRows(GuidesAfterGet(guide_versions, guide_file),
                                      new_content)
                 ELSE guide_versions
            /\ guide_file' = IF apply_guide THEN new_content ELSE guide_file
            /\ UNCHANGED <<feedback_sessions, inline_comments, voice_sessions,
                           conversation_messages, extracted_feedback, clock, in_flight, offset_calls>>

ReviewRevisionWithin(lim, r, review) ==
    IF ReviewRevisionReply(r, review) # "ok" THEN UNCHANGED vars
    ELSE LET revision == revisions[r]
             p == revision.original_poem_id
             poem_accepted == IF review.accept_poem THEN 1 ELSE -1
             final_poem == IF Truthy(review.edited_poem)
                           THEN Val(review.edited_poem) ELSE revision.revised_poem
             apply_guide == review.accept_guide_changes
                            /\ Truthy(revision.proposed_guide_changes)
             final_changes == IF Truthy(review.edited_guide_changes)
                              THEN Val(review.edited_guide_changes)
                              ELSE Val(revision.proposed_guide_changes)
             new_content == CurrentGuide(guide_versions, guide_file).content
                            \o <<"\n\n">> \o final_changes
         IN /\ apply_guide => Len(guide_versions) < lim.guides
            /\ revisions' =
                 [revisions EXCEPT
                    ![r].poem_accepted = poem_accepted,
                    ![r].revised_poem = IF review.accept_poem THEN final_poem ELSE @,
                    ![r].guide_changes_accepted =
                        IF apply_guide THEN 1
                        ELSE IF review.accept_guide_changes = FALSE THEN -1 ELSE @]
            /\ poems' = IF poem_accepted = 1
                        THEN [poems EXCEPT ![p].status = "accepted"]
                        ELSE poems
            /\ guide_versions' =
                 IF apply_guide
                 THEN UpdateGuideRows(GuidesAfterGet(guide_versions, guide_file),
                                      new_content)
                 ELSE guide_versions
            /\ guide_file' = IF apply_guide THEN new_content ELSE guide_file
            /\ UNCHANGED <<feedback_sessions, inline_comments, voice_sessions,
                           conversation_messages, extracted_feedback, clock, in_flight, offset_calls>>

ReviewRevision(r, review) == ReviewRevisionWithin(Limits, r, review)

(* review_revision served while other requests are served, when it applies  *)
(* guide changes.  ReviewRevisionReads is the handler up to the result of   *)
(* update_guide's SELECT max(version): it has read the current guide (62)   *)
(* and the greatest version; its own writes are flushed and not committed,  *)
(* so that no other review gets that far before it commits.                 *)
(* ReviewRevisionCommits is the rest: the new row, the file, the commit.    *)
ReviewRevisionReads(r, review) ==
    /\ ReviewRevisionReply(r, review) = "ok"
    /\ review.accept_guide_changes
    /\ Truthy(revisions[r].proposed_guide_changes)
    /\ guide_versions # <<>>
    /\ Len(in_flight) < MaxInFlight
    /\ Len(guide_versions) + Len(in_flight) < MaxGuideRows
    /\ \A i \in Ids(in_flight) : in_flight[i].review = None
    /\ LET rows == {guide_versions[i] : i \in Ids(guide_versions)}
           newest == Max({g.version : g \in rows})
           final_changes == IF Truthy(review.edited_guide_changes)
                            THEN Val(review.edited_guide_changes)
                            ELSE Val(revisions[r].proposed_guide_changes)
       IN \E current \in {g \in rows : g.version = newest} :
             in_flight' = Append(in_flight,
                [content |-> current.content \o <<"\n\n">> \o final_changes,
                 version |-> newest + 1,
                 review |-> Some([revision_id |-> r, accept_poem |-> review.accept_poem,
                                  edited_poem |-> review.edited_poem])])
    /\ UNCHANGED <<guide_file, guide_versions, poems, feedback_sessions,
                   inline_comments, revisions, voice_sessions,
                   conversation_messages, extracted_feedback, clock, offset_calls>>

ReviewRevisionCommits(i) ==
    /\ i \in Ids(in_flight)
    /\ in_flight[i].review # None
    /\ LET call == Val(in_flight[i].review)
           r == call.revision_id
           final_poem == IF Truthy(call.edited_poem)
                         THEN Val(call.edited_poem) ELSE revisions[r].revised_poem
       IN /\ revisions' =
               [revisions EXCEPT
                  ![r].poem_accepted = IF call.accept_poem THEN 1 ELSE -1,
                  ![r].revised_poem = IF call.accept_poem THEN final_poem ELSE @,
                  ![r].guide_changes_accepted = 1]
          /\ poems' = IF call.accept_poem
                      THEN [poems EXCEPT ![revisions[r].original_poem_id].status =
                                            "accepted"]
                      ELSE poems
    /\ guide_versions' = Append(guide_versions,
           [content |-> in_flight[i].content, version |-> in_flight[i].version])
    /\ guide_file' = in_flight[i].content
    /\ in_flight' = Without(in_flight, i)
    /\ UNCHANGED <<feedback_sessions, inline_comments, voice_sessions,
                   conversation_messages, extracted_feedback, clock, offset_calls>>

(* ------------------------ routers/voice_feedback.py -------------------- *)
(* AIInterviewer.get_initial_greeting: a fixed text around the poem *)
Greeting(poem_content) == <<"Hello">> \o poem_content \o <<"thoughts?">>

NewMessage(v, role, content, audio) ==
    [voice_session_id |-> v, role |-> role, content |-> content, audio_url |-> audio]

(* an item stored as already confirmed *)
NewExtractedConfirmed(v, message_id, item) ==
    [voice_session_id |-> v, message_id |-> message_id,
     feedback_type |-> item.feedback_type, content |-> item.content,
     highlighted_text |-> item.highlighted_text,
     start_offset |-> item.start_offset, end_offset |-> item.end_offset,
     confirmation_status |-> "confirmed"]

(* the ExtractedFeedback row stored for an item of the extractor *)
NewExtracted(v, message_id, item) ==
    [voice_session_id |-> v, message_id |-> message_id,
     feedback_type |-> item.feedback_type, content |-> item.content,
     highlighted_text |-> item.highlighted_text,
     start_offset |-> item.start_offset, end_offset |-> item.end_offset,
     confirmation_status |-> "pending"]
ExtractedRows(v, message_id, items) ==
    [i \in 1..Len(items) |-> NewExtracted(v, message_id, items[i])]
(* FeedbackType(item["feedback_type"]) raises ValueError outside the enum *)
ValidItems(items) == \A i \in 1..Len(items) : items[i].feedback_type \in FeedbackType

(* POST /api/voice/start/{poem_id} *)
StartVoiceFeedbackSessionReply(p) ==
    IF p \notin Ids(poems) THEN "NotFound"
    ELSE "ok"

StartVoiceFeedbackSessionWithin(lim, p) ==
    IF StartVoiceFeedbackSessionReply(p) # "ok" THEN UNCHANGED vars
    ELSE /\ Len(feedback_sessions) < MaxSessions
         /\ Len(conversation_messages) < lim.messages
         /\ poems' = [poems EXCEPT ![p].status = "under_review"]
         /\ feedback_sessions' = Append(feedback_sessions, NewFeedbackSession(p))
         /\ voice_sessions' = Append(voice_sessions,
                [feedback_session_id |-> Len(feedback_sessions) + 1,
                 status |-> "active", completed_at |-> None])
         /\ conversation_messages' = Append(conversation_messages,
                NewMessage(Len(voice_sessions) + 1, "ai",
                           Greeting(poems[p].content), None))
         /\ UNCHANGED <<guide_file, guide_versions, inline_comments, revisions,
                        extracted_feedback, clock, in_flight, offset_calls>>

StartVoiceFeedbackSession(p) == StartVoiceFeedbackSessionWithin(Limits, p)

(* A start request that raises at one of its flushes or at its commit: the  *)
(* only commit is at the end, so nothing of it is stored.                   *)
StartVoiceFeedbackSessionFails(p) == UNCHANGED vars

(* POST /api/voice/{session_id}/message *)
(* the text of the turn: the form's text, replaced by the transcription of  *)
(* the audio file when one is sent (None when the transcription raises)     *)
TurnText(request) ==
    IF request.audio_file # None THEN Val(request.audio_file).transcription
    ELSE request.text

(* send_message without its check that the session is active (151-152 left out) *)
SendMessageReplyUngated(v, request) ==
    IF v \notin Ids(voice_sessions) THEN "NotFound"
    ELSE IF request.audio_file # None /\ TurnText(request) = None
    THEN "ExternalCapabilityError"
    ELSE IF ~ Truthy(TurnText(request)) THEN "ValidationError"
    ELSE "ok"

SendMessageReply(v, request) ==
    IF v \notin Ids(voice_sessions) THEN "NotFound"
    ELSE IF voice_sessions[v].status # "active" THEN "InvalidState"
    ELSE IF request.audio_file # None /\ TurnText(request) = None
    THEN "ExternalCapabilityError"
    ELSE IF ~ Truthy(TurnText(request)) THEN "ValidationError"
    ELSE "ok"

(* the reply once the interviewer has answered: storing an invalid item    *)
(* raises before the commit, and the session's writes are rolled back      *)
SendMessageOutcome(v, request, ai_response) ==
    IF SendMessageReply(v, request) # "ok" THEN SendMessageReply(v, request)
    ELSE IF ~ ValidItems(ai_response.extracted_items) THEN "InternalError"
    ELSE "ok"

(* send_message that marks the session completed and returns before the   *)
(* items of the terminal turn are stored                                    *)
SendMessageCompletesFirst(lim, v, request, ai_response) ==
    IF SendMessageOutcome(v, request, ai_response) # "ok" THEN UNCHANGED vars
    ELSE /\ Len(conversation_messages) + 2 <= lim.messages
         /\ Len(extracted_feedback) + Len(ai_response.extracted_items) <= lim.items
         /\ conversation_messages' = conversation_messages \o
                <<NewMessage(v, "sme", Val(TurnText(request)), None),
                  NewMessage(v, "ai", ai_response.follow_up_question, None)>>
         /\ IF ai_response.is_complete
            THEN /\ voice_sessions' = [voice_sessions EXCEPT
                                         ![v].status = "completed",
                                         ![v].completed_at = Some(clock)]
                 /\ clock' = clock + 1
                 /\ UNCHANGED <<in_flight, offset_calls>>
                 /\ UNCHANGED extracted_feedback
            ELSE /\ extracted_feedback' = extracted_feedback \o
                       ExtractedRows(v, Some(Len(conversation_messages) + 2),
                                     ai_response.extracted_items)
                 /\ UNCHANGED <<voice_sessions, clock, in_flight, offset_calls>>
         /\ UNCHANGED <<guide_file, guide_versions, poems, feedback_sessions,
                        inline_comments, revisions>>

SendMessageWithin(lim, v, request, ai_response) ==
    LET transcribed == request.audio_file # None
        text == TurnText(request)
    IN
    IF SendMessageOutcome(v, request, ai_response) # "ok" THEN UNCHANGED vars
    ELSE /\ Len(conversation_messages) + 2 <= lim.messages
         /\ Len(extracted_feedback) + Len(ai_response.extracted_items) <= lim.items
         /\ conversation_messages' = conversation_messages \o
                <<NewMessage(v, "sme", Val(text),
                             IF transcribed THEN Some(<<"file">>) ELSE None),
                  NewMessage(v, "ai", ai_response.follow_up_question, None)>>
         /\ extracted_feedback' = extracted_feedback \o
                ExtractedRows(v, Some(Len(conversation_messages) + 2),
                              ai_response.extracted_items)
         /\ IF ai_response.is_complete
            THEN /\ voice_sessions' = [voice_sessions EXCEPT
                                         ![v].status = "completed",
                                         ![v].completed_at = Some(clock)]
                 /\ clock' = clock + 1
                 /\ UNCHANGED <<in_flight, offset_calls>>
            ELSE UNCHANGED <<voice_sessions, clock, in_flight, offset_calls>>
         /\ UNCHANGED <<guide_file, guide_versions, poems, feedback_sessions,
                        inline_comments, revisions>>

SendMessage(v, request, ai_response) ==
    SendMessageWithin(Limits, v, request, ai_response)

(* POST /api/voice/{session_id}/complete *)
CompleteSessionReply(v) ==
    IF v \notin Ids(voice_sessions) THEN "NotFound" ELSE "ok"

CompleteSession(v) ==
    IF CompleteSessionReply(v) # "ok" THEN UNCHANGED vars
    ELSE /\ clock < MaxClock
         /\ voice_sessions' = [voice_sessions EXCEPT
                                 ![v].status = "completed",
                                 ![v].completed_at = Some(clock)]
         /\ clock' = clock + 1
         /\ UNCHANGED <<in_flight, offset_calls>>
         /\ UNCHANGED <<guide_file, guide_versions, poems, feedback_sessions,
                        inline_comments, revisions, conversation_messages,
                        extracted_feedback>>

(* DELETE /api/voice/{session_id} *)
CancelSessionReply(v) ==
    IF v \notin Ids(voice_sessions) THEN "NotFound" ELSE "ok"

(* cancel_session that also discards what the parent session holds *)
CancelSessionResetsParent(v) ==
    IF CancelSessionReply(v) # "ok" THEN UNCHANGED vars
    ELSE /\ clock < MaxClock
         /\ voice_sessions' = [voice_sessions EXCEPT
                                 ![v].status = "cancelled",
                                 ![v].completed_at = Some(clock)]
         /\ clock' = clock + 1
         /\ UNCHANGED <<in_flight, offset_calls>>
         /\ feedback_sessions' =
              [feedback_sessions EXCEPT
                 ![voice_sessions[v].feedback_session_id].status = "in_progress"]
         /\ inline_comments' =
              {c \in inline_comments :
                 c.session_id # voice_sessions[v].feedback_session_id}
         /\ UNCHANGED <<guide_file, guide_versions, poems, revisions,
                        conversation_messages, extracted_feedback>>

CancelSession(v) ==
    IF CancelSessionReply(v) # "ok" THEN UNCHANGED vars
    ELSE /\ clock < MaxClock
         /\ voice_sessions' = [voice_sessions EXCEPT
                                 ![v].status = "cancelled",
                                 ![v].completed_at = Some(clock)]
         /\ clock' = clock + 1
         /\ UNCHANGED <<in_flight, offset_calls>>
         /\ UNCHANGED <<guide_file, guide_versions, poems, feedback_sessions,
                        inline_comments, revisions, conversation_messages,
                        extracted_feedback>>

(* ------------------- services/mock_ai_interviewer.py ------------------- *)
(* A text is a sequence of tokens. Substrings(tok) are the words of the     *)
(* lists below that occur in tok.lower() as substrings.                     *)
CompletionSignals ==
    {"that's all", "i'm done", "nothing else", "that's it",
     "all done", "finished", "no more", "that's everything"}
InlineWords == {"line", "phrase", "word", "part", "section"}
OverallWords == {"overall", "general", "whole", "entire"}
GuideWords == {"never", "don't", "avoid", "rule", "should"}
Substrings(tok) ==
    CASE tok = "That's All" -> {"that's all"}
      [] tok = "unfinished" -> {"finished"}
      [] tok = "never" -> {"never"}
      [] tok \in CompletionSignals \cup InlineWords \cup OverallWords -> {tok}
      [] OTHER -> {}
(* any(word in message_lower for word in words) *)
AnyIn(words, message) ==
    \E i \in 1..Len(message) : Substrings(message[i]) \cap words # {}
(* the first i of range(1, 6) with str(i) in sme_message, if any *)
MockDigits == <<"1", "2", "3", "4", "5">>
RatingDigits(message) ==
    {d \in 1..5 : \E i \in 1..Len(message) : message[i] = MockDigits[d]}
(* poem_content.split('\n') *)
NewLines(poem_content) ==
    {i \in 1..Len(poem_content) : poem_content[i] = "\n"}
FirstLine(poem_content) ==
    IF poem_content = <<>> THEN <<"sample text">>
    ELSE IF NewLines(poem_content) = {} THEN poem_content
    ELSE SubSeq(poem_content, 1,
                (CHOOSE i \in NewLines(poem_content) :
                    \A j \in NewLines(poem_content) : i <= j) - 1)
MockItem(type, content, highlighted, start, end) ==
    [feedback_type |-> type, content |-> content, highlighted_text |-> highlighted,
     start_offset |-> start, end_offset |-> end]

(* generate_mock_response; turn counts the SME messages of the history,     *)
(* the latest one included                                                  *)
GenerateMockResponse(sme_message, turn, poem_content) ==
    LET is_complete == AnyIn(CompletionSignals, sme_message)
        first_line == FirstLine(poem_content)
    IN
    IF turn = 1
    THEN [follow_up_question |-> <<"which parts?">>,
          extracted_items |->
             (IF AnyIn(InlineWords, sme_message)
              THEN <<MockItem("inline_comment",
                              <<"[Mock] SME mentioned: ">> \o sme_message,
                              Some(first_line), Some(0), Some(Len(first_line)))>>
              ELSE <<>>)
             \o (IF AnyIn(OverallWords, sme_message)
                 THEN <<MockItem("overall",
                                 <<"[Mock] Overall observation: ">> \o sme_message,
                                 None, None, None)>>
                 ELSE <<>>),
          is_complete |-> FALSE]
    ELSE IF turn = 2
    THEN [follow_up_question |-> <<"any rules?">>,
          extracted_items |->
             (IF AnyIn({"line", "word"}, sme_message) /\ NewLines(poem_content) # {}
              THEN <<MockItem("inline_comment",
                              <<"[Mock] Issue with this section: ">> \o sme_message,
                              Some(<<"second line">>),
                              Some(Len(first_line) + 1), Some(Len(poem_content)))>>
              ELSE <<>>)
             \o (IF AnyIn(GuideWords, sme_message)
                 THEN <<MockItem("guide_suggestion",
                                 <<"[Mock] Suggested rule: ">> \o sme_message,
                                 None, None, None)>>
                 ELSE <<>>),
          is_complete |-> FALSE]
    ELSE [follow_up_question |->
             IF is_complete THEN <<"Thank you">> ELSE <<"anything else?">>,
          extracted_items |->
             IF RatingDigits(sme_message) # {}
             THEN <<MockItem("rating",
                             <<"Rating: ",
                               MockDigits[CHOOSE d \in RatingDigits(sme_message) :
                                            \A e \in RatingDigits(sme_message) : d <= e],
                               "/", "5">>,
                             None, None, None)>>
             ELSE <<>>,
          is_complete |-> is_complete]

(* send_message that hands the interviewer an empty history (the loop of   *)
(* voice_feedback.py 212-216 left out)                                      *)
SmeTurnsForgotten(v) == 0

(* AIInterviewer.get_response without an API key: the history is the        *)
(* session's stored messages and the message of this turn                   *)
SmeTurns(v) ==
    Cardinality({i \in Ids(conversation_messages) :
                   /\ conversation_messages[i].voice_session_id = v
                   /\ conversation_messages[i].role = "sme"})
MockResponse(v, request) ==
    GenerateMockResponse(OrEmpty(TurnText(request)), SmeTurns(v) + 1,
                         IF v \in Ids(voice_sessions)
                         THEN poems[feedback_sessions[
                                 voice_sessions[v].feedback_session_id].poem_id].content
                         ELSE <<>>)
(* the forms of POST /voice/{id}/message sent to the mock interviewer *)
VoiceTurnRequests ==
    {[text |-> Some(<<"the", "word">>), audio_file |-> None],
     [text |-> Some(<<"That's All">>), audio_file |-> None],
     [text |-> Some(<<"4", "that's all">>), audio_file |-> None]}

(* re.findall(r'\d+', content): the numbers written in a text, in order *)
Numbers == [t \in {"1", "2", "3", "4", "5", "7", "10"} |->
              CASE t = "1" -> 1 [] t = "2" -> 2 [] t = "3" -> 3 [] t = "4" -> 4
                [] t = "5" -> 5 [] t = "7" -> 7 [] t = "10" -> 10]
FindNumbers(content) ==
    SelectSeq(content, LAMBDA tok : tok \in DOMAIN Numbers)

(* "\n".join(f"- {part}" for part in parts) and "\n\n".join(parts) *)
RECURSIVE Join(_, _)
Join(parts, sep) ==
    IF parts = <<>> THEN <<>>
    ELSE IF Len(parts) = 1 THEN parts[1]
    ELSE parts[1] \o sep \o Join(Tail(parts), sep)
Bullets(parts) == [i \in 1..Len(parts) |-> <<"- ">> \o parts[i]]

(* the first row of the voice session with that id, as next(...) finds it *)
ItemOf(items, v, item_id) ==
    IF item_id \in Ids(items) /\ items[item_id].voice_session_id = v
    THEN Some(item_id) ELSE None

(* the loop over request.rejected_ids left out *)
MarkRejectedSkips(items, v, ids) == items

(* the loop over request.rejected_ids *)
RECURSIVE MarkRejected(_, _, _)
MarkRejected(items, v, ids) ==
    IF ids = <<>> THEN items
    ELSE LET item == ItemOf(items, v, Head(ids))
         IN MarkRejected(
              IF item # None
              THEN [items EXCEPT ![Val(item)].confirmation_status = "rejected"]
              ELSE items,
              v, Tail(ids))

(* a confirmed rating item: the first number of its content, when it has   *)
(* one, replaces rating_value                                               *)
FoldRatingFirstWins(marked, item) ==
    IF FindNumbers(item.content) # <<>> /\ marked.rating_value = None
    THEN [marked EXCEPT !.rating_value = Some(Numbers[FindNumbers(item.content)[1]])]
    ELSE marked

FoldRating(marked, item) ==
    IF FindNumbers(item.content) # <<>>
    THEN [marked EXCEPT !.rating_value = Some(Numbers[FindNumbers(item.content)[1]])]
    ELSE marked

(* the loop over request.confirmed_ids; acc carries the rows and the locals *)
RECURSIVE FoldConfirmed(_, _, _, _)
FoldConfirmed(acc, v, s, ids) ==
    IF ids = <<>> THEN acc
    ELSE LET found == ItemOf(acc.items, v, Head(ids)) IN
         IF found = None THEN FoldConfirmed(acc, v, s, Tail(ids))
         ELSE LET item == acc.items[Val(found)]
                  marked == [acc EXCEPT
                               !.items[Val(found)].confirmation_status = "confirmed"]
                  folded ==
                    CASE item.feedback_type = "inline_comment" ->
                           IF /\ Truthy(item.highlighted_text)
                              /\ item.start_offset # None
                              /\ item.end_offset # None
                           THEN [marked EXCEPT !.comments = @ \cup
                                   {[id |-> Max({c.id : c \in @}) + 1,
                                     session_id |-> s,
                                     highlighted_text |-> Val(item.highlighted_text),
                                     start_offset |-> Val(item.start_offset),
                                     end_offset |-> Val(item.end_offset),
                                     comment |-> item.content]}]
                           ELSE marked
                      [] item.feedback_type = "overall" ->
                           [marked EXCEPT !.overall_parts = Append(@, item.content)]
                      [] item.feedback_type = "guide_suggestion" ->
                           [marked EXCEPT !.guide_parts = Append(@, item.content)]
                      [] item.feedback_type = "rating" -> FoldRating(marked, item)
              IN FoldConfirmed(folded, v, s, Tail(ids))

(* POST /api/voice/{session_id}/confirm *)
ConfirmFeedbackReply(v, request) ==
    IF v \notin Ids(voice_sessions) THEN "NotFound"
    ELSE "ok"

ConfirmFeedbackWithin(lim, v, request) ==
    IF ConfirmFeedbackReply(v, request) # "ok" THEN UNCHANGED vars
    ELSE LET s == voice_sessions[v].feedback_session_id
             acc == FoldConfirmed(
                      [items |-> MarkRejected(extracted_feedback, v,
                                              request.rejected_ids),
                       comments |-> inline_comments,
                       overall_parts |-> <<>>, guide_parts |-> <<>>,
                       rating_value |-> None],
                      v, s, request.confirmed_ids)
             overall1 == IF acc.overall_parts # <<>>
                         THEN Some(Join(acc.overall_parts, <<"\n\n">>))
                         ELSE feedback_sessions[s].overall_feedback
             overall2 == IF acc.guide_parts # <<>>
                         THEN Some(OrEmpty(overall1)
                                   \o <<"\n\nSuggested Guide Rules:\n">>
                                   \o Join(Bullets(acc.guide_parts), <<"\n">>))
                         ELSE overall1
         IN /\ Cardinality(acc.comments) <= lim.comments
            /\ extracted_feedback' = acc.items
            /\ inline_comments' = acc.comments
            /\ feedback_sessions' =
                 [feedback_sessions EXCEPT
                    ![s].overall_feedback = overall2,
                    ![s].rating = IF acc.rating_value # None
                                  THEN acc.rating_value ELSE @,
                    ![s].status = "submitted"]
            /\ UNCHANGED <<guide_file, guide_versions, poems, revisions,
                           voice_sessions, conversation_messages, clock, in_flight, offset_calls>>

(* A confirm request whose handler raises after k of the confirmed ids     *)
(* (a database error at the commit is k = Len(confirmed_ids)): the only     *)
(* commit is the last statement, so the session's writes are discarded.     *)
ConfirmPrefix(request, k) ==
    [confirmed_ids |-> SubSeq(request.confirmed_ids, 1, k),
     rejected_ids |-> request.rejected_ids]
(* the same handler committing after every item *)
ConfirmFeedbackFailsPartial(lim, v, request, k) ==
    LET acc == FoldConfirmed(
                 [items |-> MarkRejected(extracted_feedback, v, request.rejected_ids),
                  comments |-> inline_comments,
                  overall_parts |-> <<>>, guide_parts |-> <<>>,
                  rating_value |-> None],
                 v, voice_sessions[v].feedback_session_id,
                 ConfirmPrefix(request, k).confirmed_ids)
    IN IF ConfirmFeedbackReply(v, request) # "ok" THEN UNCHANGED vars
       ELSE /\ k <= Len(request.confirmed_ids)
            /\ Cardinality(acc.comments) <= lim.comments
            /\ extracted_feedback' = acc.items
            /\ inline_comments' = acc.comments
            /\ UNCHANGED <<guide_file, guide_versions, poems, feedback_sessions,
                           revisions, voice_sessions, conversation_messages, clock, in_flight, offset_calls>>

ConfirmFeedbackFails(lim, v, request, k) ==
    /\ k <= Len(request.confirmed_ids)
    /\ UNCHANGED vars

ConfirmFeedback(v, request) == ConfirmFeedbackWithin(Limits, v, request)

(* --------------------------- routers/realtime.py ----------------------- *)
(* the ConversationMessage rows of a transcript: unknown roles are skipped *)
RECURSIVE TranscriptMessages(_, _)
TranscriptMessages(v, transcript) ==
    IF transcript = <<>> THEN <<>>
    ELSE LET entry == Head(transcript)
             rest == TranscriptMessages(v, Tail(transcript))
         IN IF entry.role = "user"
            THEN <<NewMessage(v, "sme", entry.text, None)>> \o rest
            ELSE IF entry.role = "assistant"
            THEN <<NewMessage(v, "ai", entry.text, None)>> \o rest
            ELSE rest

(* get_current_guide that commits on every call *)
GetCurrentGuideCommitsAlways(gv) == TRUE

(* get_current_guide ends with a commit of the session when it has to      *)
(* create version 1: whatever was flushed before is then committed          *)
GetCurrentGuideCommits(gv) == gv = <<>>

(* POST /api/realtime/save-transcript *)
SaveRealtimeTranscriptReply(p, transcript, items) ==
    IF p \notin Ids(poems) THEN "NotFound"
    ELSE IF transcript = <<>> THEN "ValidationError"
    ELSE IF ~ ValidItems(items) THEN "InternalError"
    ELSE "ok"

SaveRealtimeTranscriptWithin(lim, p, transcript, items) ==
    LET reply == SaveRealtimeTranscriptReply(p, transcript, items)
        v == Len(voice_sessions) + 1
        rows == TranscriptMessages(v, transcript)
        (* the writes flushed before get_current_guide is called *)
        flushed ==
            /\ Len(feedback_sessions) < MaxSessions
            /\ Len(conversation_messages) + Len(rows) <= lim.messages
            /\ poems' = [poems EXCEPT ![p].status = "under_review"]
            /\ feedback_sessions' = Append(feedback_sessions, NewFeedbackSession(p))
            /\ voice_sessions' = Append(voice_sessions,
                   [feedback_session_id |-> Len(feedback_sessions) + 1,
                    status |-> "completed", completed_at |-> Some(clock)])
            /\ clock' = clock + 1
            /\ UNCHANGED <<in_flight, offset_calls>>
            /\ conversation_messages' = conversation_messages \o rows
            /\ guide_versions' = GuidesAfterGet(guide_versions, guide_file)
    IN IF reply \in {"NotFound", "ValidationError"} THEN UNCHANGED vars
       ELSE IF reply = "InternalError"
       THEN (* the loop over the items raises: what is not committed is lost *)
            IF GetCurrentGuideCommits(guide_versions)
            THEN /\ flushed
                 /\ UNCHANGED <<guide_file, inline_comments, revisions,
                                extracted_feedback>>
            ELSE UNCHANGED vars
       ELSE /\ flushed
            /\ Len(extracted_feedback) + Len(items) <= lim.items
            /\ extracted_feedback' = extracted_feedback \o ExtractedRows(v, None, items)
            /\ UNCHANGED <<guide_file, inline_comments, revisions>>

SaveRealtimeTranscript(p, transcript, items) ==
    SaveRealtimeTranscriptWithin(Limits, p, transcript, items)

IdLists == {<<>>} \cup {<<i>> : i \in ItemIds}
(* request bodies of POST /voice/{id}/confirm *)
ConfirmRequests == [confirmed_ids : IdLists, rejected_ids : IdLists]
VoiceIds == 1..MaxSessions

(* ---------------------------- specifications -------------------------- *)
(* Collecting and processing feedback: every handler of poems.py,          *)
(* feedback.py, voice_feedback.py and realtime.py modelled above.          *)
Next ==
    \/ \E content \in GuideUpdates : UpdateGuide(content)
    \/ \E content \in PoemTexts : GenerateNewPoem(content)
    \/ \E p \in PoemIds : StartFeedbackSession(p)
    \/ \E s \in SessionIds, comment \in CommentInputs : AddComment(s, comment)
    \/ \E s \in SessionIds, cid \in CommentIds : DeleteComment(s, cid)
    \/ \E s \in SessionIds, update \in FeedbackUpdates : UpdateFeedback(s, update)
    \/ \E s \in SessionIds : SubmitFeedback(s)
    \/ \E s \in SessionIds : ProcessFeedback(s)
    \/ \E p \in PoemIds : StartVoiceFeedbackSession(p)
    \/ \E v \in VoiceIds, request \in VoiceMessageRequests,
          ai_response \in InterviewerResponses : SendMessage(v, request, ai_response)
    \/ \E v \in VoiceIds, request \in ConfirmRequests : ConfirmFeedback(v, request)
    \/ \E p \in PoemIds, transcript \in Transcripts, items \in ExtractionResults :
          SaveRealtimeTranscript(p, transcript, items)

Spec == Init /\ [][Next]_vars

(* Reviewing revisions: the handlers that create sessions, move their       *)
(* status and create revisions, together with review and the guide edit.    *)
NextReview ==
    \/ \E content \in PoemTexts : GenerateNewPoem(content)
    \/ \E p \in PoemIds : StartFeedbackSession(p)
    \/ \E s \in SessionIds : SubmitFeedback(s)
    \/ \E s \in SessionIds : ProcessFeedback(s)
    \/ \E r \in RevisionIds, review \in RevisionReviews : ReviewRevision(r, review)
    \/ \E p \in PoemIds : StartVoiceFeedbackSession(p)
    \/ \E v \in VoiceIds, request \in ConfirmRequests : ConfirmFeedback(v, request)
    \/ \E p \in PoemIds, transcript \in Transcripts, items \in ExtractionResults :
          SaveRealtimeTranscript(p, transcript, items)

SpecReview == Init /\ [][NextReview]_vars

(* Confirming extracted items: transcripts with several items, confirm     *)
(* requests with up to two ids in each list, and requests that fail.        *)
InlineUnresolved ==
    [feedback_type |-> "inline_comment", content |-> <<"vague">>,
     highlighted_text |-> Some(<<"heart">>), start_offset |-> None, end_offset |-> None]
RatingFour == MockItem("rating", <<"Rating: ", "4", "/", "5">>, None, None, None)
RatingNone == MockItem("rating", <<"good">>, None, None, None)
RatingTwo == MockItem("rating", <<"2", "stars">>, None, None, None)
FoldExtractionResults ==
    {<<InlineItem, OverallItem>>,
     <<InlineItem, InlineUnresolved, OverallItem>>,
     <<RatingFour, RatingNone, RatingTwo>>,
     <<OverallItem, InvalidItem>>}
FoldItemIds == 1..MaxFoldItems
(* confirmed_ids: an id, an id twice, two ids in either order *)
FoldIdLists ==
    {<<>>} \cup {<<i>> : i \in FoldItemIds}
           \cup {<<1, i>> : i \in FoldItemIds} \cup {<<3, 1>>, <<2, 3>>}
FoldRejectLists == {<<>>, <<1>>, <<2>>}
FoldConfirmRequests == [confirmed_ids : FoldIdLists, rejected_ids : FoldRejectLists]
(* the requests that are made to fail *)
FoldFailingRequests ==
    {[confirmed_ids |-> <<1, 2>>, rejected_ids |-> <<1>>],
     [confirmed_ids |-> <<1, 3>>, rejected_ids |-> <<2>>]}
NextFold ==
    \/ \E content \in PoemTexts : GenerateNewPoem(content)
    \/ \E p \in PoemIds : StartVoiceFeedbackSessionWithin(FoldLimits, p)
    \/ \E p \in PoemIds : StartVoiceFeedbackSessionFails(p)
    \/ \E v \in VoiceIds, request \in VoiceMessageRequests,
          ai_response \in InterviewerResponses :
          SendMessageWithin(FoldLimits, v, request, ai_response)
    \/ \E p \in PoemIds, transcript \in Transcripts, items \in FoldExtractionResults :
          SaveRealtimeTranscriptWithin(FoldLimits, p, transcript, items)
    \/ \E v \in VoiceIds, request \in FoldConfirmRequests :
          ConfirmFeedbackWithin(FoldLimits, v, request)
    \/ \E v \in VoiceIds, request \in FoldFailingRequests, k \in 0..2 :
          ConfirmFeedbackFails(FoldLimits, v, request, k)

SpecFold == Init /\ [][NextFold]_vars

(* Voice conversations with the mock interviewer: up to three turns. *)
VoiceItemIds == 1..MaxVoiceItems
VoiceConfirmRequests ==
    [confirmed_ids : {<<>>} \cup {<<i>> : i \in VoiceItemIds}, rejected_ids : {<<>>}]
NextVoice ==
    \/ \E content \in PoemTexts : GenerateNewPoem(content)
    \/ \E p \in PoemIds : StartVoiceFeedbackSessionWithin(VoiceLimits, p)
    \/ \E v \in VoiceIds, request \in VoiceTurnRequests :
          SendMessageWithin(VoiceLimits, v, request, MockResponse(v, request))
    \/ \E v \in VoiceIds : CompleteSession(v)
    \/ \E v \in VoiceIds : CancelSession(v)
    \/ \E v \in VoiceIds, request \in VoiceConfirmRequests :
          ConfirmFeedbackWithin(VoiceLimits, v, request)

SpecVoice == Init /\ [][NextVoice]_vars

(* The guide version store: human edits and reviews that append versions,  *)
(* with reviews that edit the proposed changes.                             *)
NextGuide ==
    \/ \E content \in PoemTexts : GenerateNewPoem(content)
    \/ \E content \in GuideUpdates : UpdateGuideWithin(GuideLimits, content)
    \/ \E p \in PoemIds : StartFeedbackSession(p)
    \/ \E s \in SessionIds : SubmitFeedback(s)
    \/ \E s \in SessionIds : ProcessFeedback(s)
    \/ \E r \in RevisionIds, review \in GuideReviews :
          ReviewRevisionWithin(GuideLimits, r, review)

SpecGuide == Init /\ [][NextGuide]_vars

(* The guide version store under requests served concurrently: appends    *)
(* whose read of the greatest version and whose commit are separate steps.  *)
InFlightIds == 1..MaxInFlight
NextAppend ==
    \/ \E content \in PoemTexts : GenerateNewPoem(content)
    \/ \E content \in GuideUpdates : UpdateGuideReads(content)
    \/ \E i \in InFlightIds : UpdateGuideCommits(i)
    \/ \E p \in PoemIds : StartFeedbackSession(p)
    \/ \E s \in SessionIds : SubmitFeedback(s)
    \/ \E s \in SessionIds : ProcessFeedback(s)
    \/ \E r \in RevisionIds, review \in RevisionReviews : ReviewRevisionReads(r, review)
    \/ \E i \in InFlightIds : ReviewRevisionCommits(i)

SpecAppend == Init /\ [][NextAppend]_vars

(* ---------------------- services/ai_interviewer.py --------------------- *)
(* calculate_text_offsets: the (start, end) it returns, counted from 0 as   *)
(* Python counts, or None                                                   *)
CalculateTextOffsets(poem_text, highlighted_text) ==
    LET start == FindFrom(poem_text, highlighted_text, 1) - 1
        lower_poem == Lower(poem_text)
        lower_highlight == Lower(highlighted_text)
        lower_start == FindFrom(lower_poem, lower_highlight, 1) - 1
    IN IF start # -1 THEN Some(<<start, start + Len(highlighted_text)>>)
       ELSE IF lower_start # -1
       THEN Some(<<lower_start, lower_start + Len(highlighted_text)>>)
       ELSE None

(* a call of calculate_text_offsets returns *)
CalculateTextOffsetsReturns(i) ==
    /\ i \in Ids(offset_calls)
    /\ ~offset_calls[i].returned
    /\ offset_calls' =
          [offset_calls EXCEPT
             ![i].returned = TRUE,
             ![i].offsets = CalculateTextOffsets(offset_calls[i].poem_text,
                                                 offset_calls[i].highlighted_text)]
    /\ UNCHANGED <<guide_file, guide_versions, poems, feedback_sessions,
                   inline_comments, revisions, voice_sessions,
                   conversation_messages, extracted_feedback, clock, in_flight>>

(* ------------------- the rule engine behind process -------------------- *)
(* poems, comments and overall feedback given letter by letter, as the rule *)
(* engine reads them                                                        *)
RevisePoemTexts == {<<"T", "h", "e", " ", "h", "e", "a", "r", "t", "b", "e", "a", "t", " ", "o", "f", " ", "t", "h", "e", " ", "c", "i", "t", "y">>, <<"h", "e", "a", "r", "t", "b", "e", "a", "t", " ", "a", "n", "d", " ", "b", "r", "e", "a", "t", "h">>}
ReviseCommentInputs ==
    {[highlighted_text |-> <<"h", "e", "a", "r", "t", "b", "e", "a", "t">>, start_offset |-> 4, end_offset |-> 13,
      comment |-> <<"n", "e", "v", "e", "r", " ", "u", "s", "e", " ", "t", "h", "e", " ", "w", "o", "r", "d", " ", "h", "e", "a", "r", "t", "b", "e", "a", "t">>],
     [highlighted_text |-> <<"h", "e", "a", "r", "t", "b", "e", "a", "t">>, start_offset |-> 4, end_offset |-> 13,
      comment |-> <<"c", "h", "a", "n", "g", "e", " ", "t", "o", " ", "p", "u", "l", "s", "e">>],
     [highlighted_text |-> <<>>, start_offset |-> 0, end_offset |-> 0,
      comment |-> <<"n", "e", "v", "e", "r", " ", "u", "s", "e", " ", "h", "e", "a", "r", "t", "b", "e", "a", "t", ".", " ", "n", "e", "v", "e", "r", " ", "u", "s", "e", " ", "b", "r", "e", "a", "t", "h">>],
     [highlighted_text |-> <<"c", "i", "t", "y">>, start_offset |-> 21, end_offset |-> 25,
      comment |-> <<"n", "e", "v", "e", "r", " ", "u", "s", "e", " ", "t", "h", "e", " ", "w", "o", "r", "d", " ", "p", "u", "l", "s", "e">>]}
ReviseFeedbackUpdates ==
    {[overall_feedback |-> Some(<<"n", "e", "v", "e", "r", " ", "u", "s", "e", " ", "h", "e", "a", "r", "t", "b", "e", "a", "t">>), rating |-> None]}

NextRevise ==
    \/ \E content \in RevisePoemTexts : GenerateNewPoem(content)
    \/ \E p \in PoemIds : StartFeedbackSession(p)
    \/ \E s \in SessionIds, comment \in ReviseCommentInputs : AddComment(s, comment)
    \/ \E s \in SessionIds, update \in ReviseFeedbackUpdates : UpdateFeedback(s, update)
    \/ \E s \in SessionIds : SubmitFeedback(s)
    \/ \E s \in SessionIds : ProcessFeedbackWith(TRUE, s)

SpecRevise == Init /\ [][NextRevise]_vars

(* ------------------------- the offset resolver ------------------------- *)
(* texts of letters in both cases, and U+0130                               *)
OffsetLetters == {"a", "A", "b", CapitalIWithDot}
TextsUpTo(n) == UNION {[1..k -> OffsetLetters] : k \in 0..n}
InitOffsets ==
    /\ guide_file = InitialGuide
    /\ guide_versions = <<>>
    /\ poems = <<>>
    /\ feedback_sessions = <<>>
    /\ inline_comments = {}
    /\ revisions = <<>>
    /\ voice_sessions = <<>>
    /\ conversation_messages = <<>>
    /\ extracted_feedback = <<>>
    /\ clock = 0
    /\ in_flight = <<>>
    /\ \E poem_text \in TextsUpTo(MaxPoemLen), highlighted_text \in TextsUpTo(MaxHighlightLen) :
          offset_calls = <<[poem_text |-> poem_text,
                            highlighted_text |-> highlighted_text,
                            returned |-> FALSE, offsets |-> None]>>
NextOffsets == \E i \in 1..1 : CalculateTextOffsetsReturns(i)
SpecOffsets == InitOffsets /\ [][NextOffsets]_vars

(* ----------- handlers served while other requests are served ----------- *)
(* A handler yields at every await: between the SELECT that loads its       *)
(* session and its commit other requests are served.  A call that has       *)
(* passed its checks waits in in_flight with what it read; the external     *)
(* capability answers when it resumes.                                      *)

(* what the live model may answer to generate_revision: the text of a JSON  *)
(* object (a key left out is None), a text that is no JSON, the text of a    *)
(* JSON value that is no object                                             *)
RevisionAnswers ==
    {[json |-> "object", revised_poem |-> Some(<<"revised">>),
      proposed_guide_changes |-> Some(ProposedRules), rationale |-> None],
     [json |-> "invalid", revised_poem |-> None,
      proposed_guide_changes |-> None, rationale |-> None],
     [json |-> "array", revised_poem |-> None,
      proposed_guide_changes |-> None, rationale |-> None]}

(* generate_revision with an API key, from the model's answer on            *)
(* (ai_reviser.py 84-111): json.JSONDecodeError is the one exception        *)
(* caught, and filling a key of a value that is no object raises TypeError  *)
(* (None: the call raises)                                                  *)
GenerateRevisionLive(original_poem, answer) ==
    IF answer.json = "invalid"
    THEN Some([revised_poem |-> original_poem,
               proposed_guide_changes |-> None,
               rationale |-> Some(<<"Failed to parse AI response: ">>)])
    ELSE IF answer.json # "object" THEN None
    ELSE Some([revised_poem |-> IF answer.revised_poem = None THEN original_poem
                                ELSE Val(answer.revised_poem),
               proposed_guide_changes |-> answer.proposed_guide_changes,
               rationale |-> IF answer.rationale = None
                             THEN Some(<<"Changes applied based on SME feedback.">>)
                             ELSE answer.rationale])

(* process_feedback up to its await of the guide version (feedback.py       *)
(* 326-347): the session is loaded, submitted and without a revision        *)
ProcessFeedbackReads(s) ==
    IF ProcessFeedbackReply(s) # "ok" THEN UNCHANGED vars
    ELSE IF RevisionsOf(s) # {} THEN UNCHANGED vars
    ELSE IF GetGuideVersionRaises(guide_versions,
                                  poems[feedback_sessions[s].poem_id].guide_version)
    THEN UNCHANGED vars
    ELSE /\ Len(in_flight) < MaxInFlight
         /\ in_flight' = Append(in_flight,
                [call |-> "process", id |-> s, request |-> None])
         /\ UNCHANGED <<guide_file, guide_versions, poems, feedback_sessions,
                        inline_comments, revisions, voice_sessions,
                        conversation_messages, extracted_feedback, clock,
                        offset_calls>>

(* the rest of process_feedback on a revisions table whose session_id is    *)
(* not unique                                                               *)
ProcessFeedbackCommitsUnchecked(i, answer) ==
    /\ i \in Ids(in_flight)
    /\ in_flight[i].call = "process"
    /\ LET s == in_flight[i].id
           data == GenerateRevisionLive(
                       poems[feedback_sessions[s].poem_id].content, answer)
       IN IF data = None
          THEN UNCHANGED <<revisions, feedback_sessions>>
          ELSE /\ revisions' = Append(revisions,
                      NewRevision(s, feedback_sessions[s].poem_id, Val(data)))
               /\ feedback_sessions' =
                      [feedback_sessions EXCEPT ![s].status = "processed"]
    /\ in_flight' = Without(in_flight, i)
    /\ UNCHANGED <<guide_file, guide_versions, poems, inline_comments,
                   voice_sessions, conversation_messages, extracted_feedback,
                   clock, offset_calls>>

(* the rest of process_feedback (feedback.py 350-384): the engine answers,  *)
(* the Revision is added and the status set, and the commit fails on the    *)
(* unique revisions.session_id (models.py 104) when the session has a        *)
(* Revision by now; a call that raises leaves nothing behind                *)
ProcessFeedbackCommits(i, answer) ==
    /\ i \in Ids(in_flight)
    /\ in_flight[i].call = "process"
    /\ LET s == in_flight[i].id
           data == GenerateRevisionLive(
                       poems[feedback_sessions[s].poem_id].content, answer)
       IN IF data = None \/ RevisionsOf(s) # {}
          THEN UNCHANGED <<revisions, feedback_sessions>>
          ELSE /\ revisions' = Append(revisions,
                      NewRevision(s, feedback_sessions[s].poem_id, Val(data)))
               /\ feedback_sessions' =
                      [feedback_sessions EXCEPT ![s].status = "processed"]
    /\ in_flight' = Without(in_flight, i)
    /\ UNCHANGED <<guide_file, guide_versions, poems, inline_comments,
                   voice_sessions, conversation_messages, extracted_feedback,
                   clock, offset_calls>>

(* add_comment up to its status check (feedback.py 221-230) *)
AddCommentReads(s, comment) ==
    IF AddCommentReply(s, comment) # "ok" THEN UNCHANGED vars
    ELSE /\ Len(in_flight) < MaxInFlight
         /\ in_flight' = Append(in_flight,
                [call |-> "comment", id |-> s, request |-> Some(comment)])
         /\ UNCHANGED <<guide_file, guide_versions, poems, feedback_sessions,
                        inline_comments, revisions, voice_sessions,
                        conversation_messages, extracted_feedback, clock,
                        offset_calls>>

(* the rest of add_comment (feedback.py 232-242): the row and its commit *)
AddCommentCommits(i) ==
    /\ i \in Ids(in_flight)
    /\ in_flight[i].call = "comment"
    /\ Cardinality(inline_comments) < MaxComments
    /\ LET comment == Val(in_flight[i].request)
       IN inline_comments' = inline_comments \cup
              {[id |-> NextCommentId, session_id |-> in_flight[i].id,
                highlighted_text |-> comment.highlighted_text,
                start_offset |-> comment.start_offset,
                end_offset |-> comment.end_offset,
                comment |-> comment.comment]}
    /\ in_flight' = Without(in_flight, i)
    /\ UNCHANGED <<guide_file, guide_versions, poems, feedback_sessions,
                   revisions, voice_sessions, conversation_messages,
                   extracted_feedback, clock, offset_calls>>

(* what the live model may answer to the interviewer: the text of a JSON    *)
(* object, a text that is no JSON, the text of a JSON value that is no       *)
(* object                                                                   *)
InterviewerAnswers ==
    {[json |-> "object", result |-> Some(r)] : r \in InterviewerResponses}
    \cup {[json |-> "invalid", result |-> None], [json |-> "array", result |-> None]}

(* AIInterviewer.get_response with an API key, from the model's answer on   *)
(* (ai_interviewer.py 147-168, 304-332): a text that is no JSON gives the    *)
(* default of _parse_json_response, and whatever else is raised gives the    *)
(* fallback of get_response                                                 *)
GetResponseLive(answer) ==
    IF answer.json = "invalid"
    THEN [follow_up_question |-> <<"Could you elaborate on that?">>,
          extracted_items |-> <<>>, is_complete |-> FALSE]
    ELSE IF answer.json # "object"
    THEN [follow_up_question |-> <<"Could you tell me more about that?">>,
          extracted_items |-> <<>>, is_complete |-> FALSE]
    ELSE Val(answer.result)

(* send_message up to the text of the turn (voice_feedback.py 136-190):     *)
(* the session is loaded and active                                         *)
SendMessageReads(v, request) ==
    IF SendMessageReply(v, request) # "ok" THEN UNCHANGED vars
    ELSE /\ Len(in_flight) < MaxInFlight
         /\ in_flight' = Append(in_flight,
                [call |-> "send", id |-> v, request |-> Some(request)])
         /\ UNCHANGED <<guide_file, guide_versions, poems, feedback_sessions,
                        inline_comments, revisions, voice_sessions,
                        conversation_messages, extracted_feedback, clock,
                        offset_calls>>

(* the rest of send_message (voice_feedback.py 192-250): both messages and  *)
(* the items are stored, the status is set on a complete answer, and all is  *)
(* committed; an invalid item raises and nothing is stored                  *)
SendMessageCommits(i, answer) ==
    /\ i \in Ids(in_flight)
    /\ in_flight[i].call = "send"
    /\ LET v == in_flight[i].id
           request == Val(in_flight[i].request)
           ai_response == GetResponseLive(answer)
       IN IF ~ ValidItems(ai_response.extracted_items)
          THEN UNCHANGED <<conversation_messages, extracted_feedback,
                           voice_sessions, clock>>
          ELSE /\ Len(conversation_messages) + 2 <= MaxMessages
               /\ Len(extracted_feedback) + Len(ai_response.extracted_items)
                     <= MaxItems
               /\ conversation_messages' = conversation_messages \o
                      <<NewMessage(v, "sme", Val(TurnText(request)),
                                   IF request.audio_file # None
                                   THEN Some(<<"file">>) ELSE None),
                        NewMessage(v, "ai", ai_response.follow_up_question, None)>>
               /\ extracted_feedback' = extracted_feedback \o
                      ExtractedRows(v, Some(Len(conversation_messages) + 2),
                                    ai_response.extracted_items)
               /\ IF ai_response.is_complete
                  THEN /\ voice_sessions' = [voice_sessions EXCEPT
                                               ![v].status = "completed",
                                               ![v].completed_at = Some(clock)]
                       /\ clock' = clock + 1
                  ELSE UNCHANGED <<voice_sessions, clock>>
    /\ in_flight' = Without(in_flight, i)
    /\ UNCHANGED <<guide_file, guide_versions, poems, feedback_sessions,
                   inline_comments, revisions, offset_calls>>

(* review_revision up to its first commit.  A review that applies guide    *)
(* changes calls update_guide (revisions.py 27-67, guide_service.py 38-54),  *)
(* which shares the handler's database session: its commit stores the        *)
(* decisions made so far, the poem marked revised, and the new version.      *)
(* Any other review commits once, at the end of the handler.                *)
ReviewRevisionToCommit(r, review) ==
    IF ReviewRevisionReply(r, review) # "ok" THEN UNCHANGED vars
    ELSE IF ~ (review.accept_guide_changes
               /\ Truthy(revisions[r].proposed_guide_changes))
    THEN ReviewRevisionWithin(Limits, r, review)
    ELSE
    /\ Len(guide_versions) < MaxGuides
    /\ Len(in_flight) < MaxInFlight
    /\ LET final_poem == IF Truthy(review.edited_poem)
                         THEN Val(review.edited_poem) ELSE revisions[r].revised_poem
           final_changes == IF Truthy(review.edited_guide_changes)
                            THEN Val(review.edited_guide_changes)
                            ELSE Val(revisions[r].proposed_guide_changes)
           new_content == CurrentGuide(guide_versions, guide_file).content
                          \o <<"\n\n">> \o final_changes
       IN /\ revisions' =
               [revisions EXCEPT
                  ![r].poem_accepted = IF review.accept_poem THEN 1 ELSE -1,
                  ![r].revised_poem = IF review.accept_poem THEN final_poem ELSE @,
                  ![r].guide_changes_accepted = 1]
          /\ poems' = IF review.accept_poem
                      THEN [poems EXCEPT ![revisions[r].original_poem_id].status =
                                            "revised"]
                      ELSE poems
          /\ guide_versions' =
               UpdateGuideRows(GuidesAfterGet(guide_versions, guide_file), new_content)
          /\ guide_file' = new_content
    /\ in_flight' = Append(in_flight,
           [call |-> "review", id |-> r, request |-> Some(review)])
    /\ UNCHANGED <<feedback_sessions, inline_comments, voice_sessions,
                   conversation_messages, extracted_feedback, clock, offset_calls>>

(* the rest of that review (revisions.py 71-77): the poem of an accepted    *)
(* revision is marked accepted, and the handler's own commit                *)
ReviewRevisionFinishes(i) ==
    /\ i \in Ids(in_flight)
    /\ in_flight[i].call = "review"
    /\ poems' = IF Val(in_flight[i].request).accept_poem
                THEN [poems EXCEPT
                        ![revisions[in_flight[i].id].original_poem_id].status =
                            "accepted"]
                ELSE poems
    /\ in_flight' = Without(in_flight, i)
    /\ UNCHANGED <<guide_file, guide_versions, feedback_sessions, inline_comments,
                   revisions, voice_sessions, conversation_messages,
                   extracted_feedback, clock, offset_calls>>

(* Requests served concurrently with the live model behind the engines. *)
NextLive ==
    \/ \E content \in PoemTexts : GenerateNewPoem(content)
    \/ \E p \in PoemIds : StartFeedbackSession(p)
    \/ \E s \in SessionIds, comment \in CommentInputs : AddCommentReads(s, comment)
    \/ \E i \in InFlightIds : AddCommentCommits(i)
    \/ \E s \in SessionIds : SubmitFeedback(s)
    \/ \E s \in SessionIds : ProcessFeedbackReads(s)
    \/ \E i \in InFlightIds, answer \in RevisionAnswers : ProcessFeedbackCommits(i, answer)
    \/ \E p \in PoemIds : StartVoiceFeedbackSessionWithin(Limits, p)
    \/ \E v \in VoiceIds, request \in VoiceMessageRequests : SendMessageReads(v, request)
    \/ \E i \in InFlightIds, answer \in InterviewerAnswers : SendMessageCommits(i, answer)
    \/ \E v \in VoiceIds : CompleteSession(v)
    \/ \E v \in VoiceIds : CancelSession(v)

SpecLive == Init /\ [][NextLive]_vars

(* Reviews with the commits they make: a review that accepts guide changes *)
(* commits twice, any other review once.                                    *)
NextCommit ==
    \/ \E content \in PoemTexts : GenerateNewPoem(content)
    \/ \E p \in PoemIds : StartFeedbackSession(p)
    \/ \E s \in SessionIds : SubmitFeedback(s)
    \/ \E s \in SessionIds : ProcessFeedback(s)
    \/ \E r \in RevisionIds, review \in RevisionReviews :
          ReviewRevisionToCommit(r, review)
    \/ \E i \in InFlightIds : ReviewRevisionFinishes(i)

SpecCommit == Init /\ [][NextCommit]_vars

(* ------------------------------- claims -------------------------------- *)
SessionRank(status) ==
    CASE status = "in_progress" -> 0 [] status = "submitted" -> 1
      [] status = "processed" -> 2
(* revised and accepted are both outcomes of a review: the same rank *)
PoemRank(status) ==
    CASE status = "draft" -> 0 [] status = "under_review" -> 1
      [] status = "revised" -> 2 [] status = "accepted" -> 2
CommentsIn(rows, s) == {c \in rows : c.session_id = s}
Left(s) == feedback_sessions[s].status \in {"submitted", "processed"}

(* C1: a process request that is accepted on a session can be issued again   *)
(* at once: the second request is accepted too, returns the same Revision,   *)
(* and the session has exactly one Revision row.                             *)
C1_ProcessIdempotent ==
    [][\A s \in SessionIds :
         (ProcessFeedbackReply(s) = "ok" /\ ProcessFeedback(s)) =>
            /\ ProcessFeedbackReply(s)' = "ok"
            /\ ProcessFeedbackReturns(s)' = ProcessFeedbackReturns(s)
            /\ Cardinality(RevisionsOf(s))' = 1]_vars

(* C2: add_comment on a session that is submitted or processed is answered    *)
(* InvalidState, and the request leaves the session's comments as they were.  *)
C2_AddCommentGated ==
    /\ [](\A s \in Ids(feedback_sessions), comment \in CommentInputs :
            Left(s) => AddCommentReply(s, comment) = "InvalidState")
    /\ [][\A s \in Ids(feedback_sessions), comment \in CommentInputs :
            (Left(s) /\ AddComment(s, comment)) =>
               CommentsIn(inline_comments', s) = CommentsOf(s)]_vars
C2_Witness ==
    \E s \in Ids(feedback_sessions), comment \in CommentInputs :
       /\ Left(s)
       /\ CommentsOf(s) # {}
       /\ AddCommentReply(s, comment) = "InvalidState"

(* C3: once a session has left in_progress no step adds, removes or changes   *)
(* any of its inline comments.                                                *)
C3_CommentsFrozen ==
    [][\A s \in Ids(feedback_sessions) :
         Left(s) => CommentsIn(inline_comments', s) = CommentsOf(s)]_vars

(* C4: the status of a session never moves backward along                    *)
(* in_progress -> submitted -> processed.                                    *)
C4_StatusForward ==
    [][\A s \in Ids(feedback_sessions) :
         SessionRank(feedback_sessions'[s].status)
            >= SessionRank(feedback_sessions[s].status)]_vars

(* C5: a Revision row appears only in a process step on a session that is    *)
(* submitted, and that step makes the session processed; a process request   *)
(* on a session that is in_progress or processed creates no Revision.        *)
C5_RevisionOnlyFromSubmitted ==
    [][/\ Len(revisions') # Len(revisions) =>
            /\ Len(revisions') = Len(revisions) + 1
            /\ LET s == revisions'[Len(revisions')].session_id
               IN /\ s \in Ids(feedback_sessions)
                  /\ feedback_sessions[s].status = "submitted"
                  /\ feedback_sessions'[s].status = "processed"
                  /\ ProcessFeedback(s)
       /\ \A s \in Ids(feedback_sessions) :
            (feedback_sessions[s].status # "submitted" /\ ProcessFeedback(s)) =>
               revisions' = revisions]_vars
C5_Witness ==
    \E r \in Ids(revisions) :
       /\ feedback_sessions[revisions[r].session_id].status = "processed"
       /\ \E s \in Ids(feedback_sessions) :
             /\ feedback_sessions[s].status = "in_progress"
             /\ RevisionsOf(s) = {}

(* C6: every session has at most one Revision.                               *)
C6_AtMostOneRevision ==
    \A s \in Ids(feedback_sessions) : Cardinality(RevisionsOf(s)) <= 1
(* a voice-backed session that was processed and confirmed again: it is      *)
(* submitted and has its Revision, so process is accepted on it once more    *)
C6_Witness ==
    \E v \in Ids(voice_sessions) :
       LET s == voice_sessions[v].feedback_session_id
       IN /\ feedback_sessions[s].status = "submitted"
          /\ Cardinality(RevisionsOf(s)) = 1
          /\ ProcessFeedbackReply(s) = "ok"

(* C7: a poem that is accepted has a Revision of that poem with              *)
(* poem_accepted = 1.                                                        *)
C7_AcceptedHasAcceptedRevision ==
    \A p \in Ids(poems) :
       poems[p].status = "accepted" =>
          \E r \in Ids(revisions) :
             /\ revisions[r].original_poem_id = p
             /\ revisions[r].poem_accepted = 1

(* C8: the status of a poem never moves backward along                       *)
(* draft -> under_review -> revised/accepted.                                *)
C8_PoemStatusForward ==
    [][\A p \in Ids(poems) :
         PoemRank(poems'[p].status) >= PoemRank(poems[p].status)]_vars

(* C9: every poem has at most one session that is in_progress.               *)
C9_OneOpenSession ==
    \A p \in Ids(poems) :
       Cardinality({s \in SessionsOf(p) :
                      feedback_sessions[s].status = "in_progress"}) <= 1

(* C10: submit is accepted on a session that is in_progress and makes it     *)
(* submitted; on a session that is submitted or processed it is answered     *)
(* InvalidState and leaves the session's row and comments as they were.      *)
C10_SubmitGated ==
    /\ [](\A s \in Ids(feedback_sessions) :
            SubmitFeedbackReply(s) =
               IF feedback_sessions[s].status = "in_progress"
               THEN "ok" ELSE "InvalidState")
    /\ [][\A s \in Ids(feedback_sessions) :
            SubmitFeedback(s) =>
               IF feedback_sessions[s].status = "in_progress"
               THEN feedback_sessions'[s].status = "submitted"
               ELSE /\ feedback_sessions'[s] = feedback_sessions[s]
                    /\ CommentsIn(inline_comments', s) = CommentsOf(s)]_vars
C10_Witness ==
    \E s \in Ids(feedback_sessions) :
       /\ Left(s)
       /\ feedback_sessions[s].overall_feedback # None
       /\ CommentsOf(s) # {}
       /\ SubmitFeedbackReply(s) = "InvalidState"

MessagesOf(rows, v) == {i \in Ids(rows) : rows[i].voice_session_id = v}
ItemsOf(rows, v) == {i \in Ids(rows) : rows[i].voice_session_id = v}
Closed(v) == voice_sessions[v].status \in {"completed", "cancelled"}

(* C12: send_message on a voice session that is completed or cancelled is   *)
(* answered InvalidState and adds no message and no extracted item to it.   *)
C12_SendMessageGated ==
    /\ [](\A v \in Ids(voice_sessions), request \in VoiceTurnRequests :
            Closed(v) => SendMessageReply(v, request) = "InvalidState")
    /\ [][\A v \in Ids(voice_sessions), request \in VoiceTurnRequests :
            (Closed(v) /\ SendMessageWithin(VoiceLimits, v, request,
                                            MockResponse(v, request))) =>
               /\ MessagesOf(conversation_messages', v)
                     = MessagesOf(conversation_messages, v)
               /\ ItemsOf(extracted_feedback', v) = ItemsOf(extracted_feedback, v)]_vars
C12_Witness ==
    \E v, w \in Ids(voice_sessions) :
       /\ voice_sessions[v].status = "cancelled"
       /\ voice_sessions[w].status = "completed"
       /\ Cardinality(MessagesOf(conversation_messages, v)) < MaxVoiceMessages - 1
       /\ \A request \in VoiceTurnRequests :
             SendMessageReply(v, request) = "InvalidState"

(* C20: cancelling a voice session leaves its parent feedback session as it  *)
(* was: status, overall feedback, rating and inline comments.                *)
C20_CancelKeepsParent ==
    [][\A v \in Ids(voice_sessions) :
         CancelSession(v) =>
            LET s == voice_sessions[v].feedback_session_id
            IN /\ feedback_sessions'[s] = feedback_sessions[s]
               /\ CommentsIn(inline_comments', s) = CommentsOf(s)]_vars
(* a cancelled voice session whose parent holds confirmed feedback *)
C20_Witness ==
    \E v \in Ids(voice_sessions) :
       LET s == voice_sessions[v].feedback_session_id
       IN /\ voice_sessions[v].status = "cancelled"
          /\ feedback_sessions[s].status = "submitted"
          /\ CommentsOf(s) # {}

(* C18: a turn whose SME message contains a completion phrase is reported   *)
(* complete and makes the voice session completed, whatever the number of   *)
(* turns before it.                                                         *)
C18_CompletionPhraseCompletes ==
    [][\A v \in Ids(voice_sessions), request \in VoiceTurnRequests :
         (/\ SendMessageReply(v, request) = "ok"
          /\ AnyIn(CompletionSignals, Val(TurnText(request)))
          /\ SendMessageWithin(VoiceLimits, v, request, MockResponse(v, request))) =>
            /\ MockResponse(v, request).is_complete
            /\ voice_sessions'[v].status = "completed"]_vars

(* C19: the send_message step that takes a voice session from active to     *)
(* completed has stored the SME message, the AI reply and the items of that *)
(* turn as pending, and has kept every item stored before.                  *)
C19_CompletionStoresTurn ==
    [][\A v \in Ids(voice_sessions), request \in VoiceTurnRequests :
         (/\ voice_sessions[v].status = "active"
          /\ voice_sessions'[v].status = "completed"
          /\ SendMessageWithin(VoiceLimits, v, request, MockResponse(v, request))) =>
            LET n == Len(conversation_messages)
                k == Len(extracted_feedback)
                items == MockResponse(v, request).extracted_items
            IN /\ Len(conversation_messages') = n + 2
               /\ conversation_messages'[n + 1] =
                     NewMessage(v, "sme", Val(TurnText(request)), None)
               /\ conversation_messages'[n + 2].role = "ai"
               /\ Len(extracted_feedback') = k + Len(items)
               /\ \A i \in 1..k : extracted_feedback'[i] = extracted_feedback[i]
               /\ \A i \in 1..Len(items) :
                     /\ extracted_feedback'[k + i].voice_session_id = v
                     /\ extracted_feedback'[k + i].content = items[i].content
                     /\ extracted_feedback'[k + i].confirmation_status = "pending"]_vars
(* a completed session holding an item of an earlier turn and an item of    *)
(* the terminal turn, both pending                                          *)
C19_Witness ==
    \E v \in Ids(voice_sessions) :
       /\ voice_sessions[v].status = "completed"
       /\ \E i, j \in ItemsOf(extracted_feedback, v) :
             /\ i < j
             /\ extracted_feedback[i].confirmation_status = "pending"
             /\ extracted_feedback[j].confirmation_status = "pending"
             /\ extracted_feedback[j].message_id =
                   Some(Max(MessagesOf(conversation_messages, v)))

Range(ids) == {ids[i] : i \in 1..Len(ids)}
VoiceTables ==
    <<poems, feedback_sessions, voice_sessions, conversation_messages,
      extracted_feedback>>

C13_ExtractionOnlyPending ==
    [][/\ \A v \in Ids(voice_sessions), request \in VoiceMessageRequests,
            ai_response \in InterviewerResponses :
            SendMessageWithin(FoldLimits, v, request, ai_response) =>
               /\ Len(extracted_feedback') =
                     Len(extracted_feedback) + Len(ai_response.extracted_items)
               /\ \A i \in Ids(extracted_feedback') \ Ids(extracted_feedback) :
                     extracted_feedback'[i].confirmation_status = "pending"
               /\ feedback_sessions' = feedback_sessions
               /\ inline_comments' = inline_comments
       /\ \A p \in Ids(poems), transcript \in Transcripts,
            items \in FoldExtractionResults :
            (/\ SaveRealtimeTranscriptReply(p, transcript, items) = "ok"
             /\ SaveRealtimeTranscriptWithin(FoldLimits, p, transcript, items)) =>
               /\ Len(extracted_feedback') = Len(extracted_feedback) + Len(items)
               /\ \A i \in Ids(extracted_feedback') \ Ids(extracted_feedback) :
                     extracted_feedback'[i].confirmation_status = "pending"
               /\ feedback_sessions' =
                     Append(feedback_sessions,
                            [poem_id |-> p, status |-> "in_progress",
                             overall_feedback |-> None, rating |-> None])
               /\ inline_comments' = inline_comments]_vars
(* pending items of a turn and of a transcript, beside confirmed feedback *)
C13_Witness ==
    \E i, j \in Ids(extracted_feedback) :
       /\ extracted_feedback[i].message_id # None
       /\ extracted_feedback[i].confirmation_status = "pending"
       /\ extracted_feedback[j].message_id = None
       /\ extracted_feedback[j].confirmation_status = "pending"
       /\ feedback_sessions[voice_sessions[
             extracted_feedback[i].voice_session_id].feedback_session_id].status
             = "in_progress"

(* the items of voice session v named in a list of ids *)
Listed(v, ids) == Range(ids) \cap ItemsOf(extracted_feedback, v)
(* an inline_comment item with highlighted text and both offsets *)
Resolved(item) ==
    /\ item.feedback_type = "inline_comment"
    /\ Truthy(item.highlighted_text)
    /\ item.start_offset # None
    /\ item.end_offset # None

(* C14: after confirm_feedback every item of the voice session listed in    *)
(* rejected_ids is rejected, every item listed in confirmed_ids is          *)
(* confirmed, and every item in neither list has the status it had.         *)
C14_ConfirmMarks ==
    [][\A v \in Ids(voice_sessions), request \in FoldConfirmRequests :
         ConfirmFeedbackWithin(FoldLimits, v, request) =>
            \A i \in ItemsOf(extracted_feedback, v) :
               /\ i \in Range(request.rejected_ids) =>
                     extracted_feedback'[i].confirmation_status = "rejected"
               /\ i \in Range(request.confirmed_ids) =>
                     extracted_feedback'[i].confirmation_status = "confirmed"
               /\ i \notin Range(request.rejected_ids) \cup Range(request.confirmed_ids)
                     => extracted_feedback'[i].confirmation_status
                           = extracted_feedback[i].confirmation_status]_vars
(* C14 as amended: an item listed in both lists ends confirmed.             *)
C14_ConfirmMarksAmended ==
    [][\A v \in Ids(voice_sessions), request \in FoldConfirmRequests :
         ConfirmFeedbackWithin(FoldLimits, v, request) =>
            \A i \in Ids(extracted_feedback) :
               extracted_feedback'[i].confirmation_status =
                  IF i \in Listed(v, request.confirmed_ids) THEN "confirmed"
                  ELSE IF i \in Listed(v, request.rejected_ids) THEN "rejected"
                  ELSE extracted_feedback[i].confirmation_status]_vars
(* one session with a rejected, a confirmed and a pending item *)
C14_Witness ==
    \E v \in Ids(voice_sessions) :
       \E i, j, k \in ItemsOf(extracted_feedback, v) :
          /\ extracted_feedback[i].confirmation_status = "rejected"
          /\ extracted_feedback[j].confirmation_status = "confirmed"
          /\ extracted_feedback[k].confirmation_status = "pending"

(* C15: confirm_feedback adds to the parent session one inline comment per  *)
(* confirmed inline_comment item with highlighted text and both offsets     *)
(* (one per item, however often its id is listed), makes overall_feedback   *)
(* non-null when an overall item is confirmed, and leaves the session       *)
(* submitted.                                                               *)
C15_ConfirmFolds ==
    [][\A v \in Ids(voice_sessions), request \in FoldConfirmRequests :
         ConfirmFeedbackWithin(FoldLimits, v, request) =>
            LET s == voice_sessions[v].feedback_session_id
                confirmed == Listed(v, request.confirmed_ids)
            IN /\ Cardinality(CommentsIn(inline_comments', s)) =
                    Cardinality(CommentsOf(s))
                    + Cardinality({i \in confirmed : Resolved(extracted_feedback[i])})
               /\ (\E i \in confirmed : extracted_feedback[i].feedback_type = "overall")
                     => feedback_sessions'[s].overall_feedback # None
               /\ feedback_sessions'[s].status = "submitted"]_vars

C17_LastRatingWins ==
    [][\A v \in Ids(voice_sessions), request \in FoldConfirmRequests :
         ConfirmFeedbackWithin(FoldLimits, v, request) =>
            LET s == voice_sessions[v].feedback_session_id
                ids == request.confirmed_ids
                rated == {n \in 1..Len(ids) :
                            /\ ids[n] \in ItemsOf(extracted_feedback, v)
                            /\ extracted_feedback[ids[n]].feedback_type = "rating"
                            /\ \E tok \in Range(extracted_feedback[ids[n]].content) :
                                  tok \in DOMAIN Numbers}
                content == extracted_feedback[ids[Max(rated)]].content
                first == CHOOSE n \in 1..Len(content) :
                            /\ content[n] \in DOMAIN Numbers
                            /\ \A j \in 1..(n - 1) : content[j] \notin DOMAIN Numbers
            IN feedback_sessions'[s].rating =
                  IF rated = {} THEN feedback_sessions[s].rating
                  ELSE Some(Numbers[content[first]])]_vars
(* the three rating items confirmed, the rating that of the first item *)
C17_Witness ==
    \E v \in Ids(voice_sessions) :
       /\ feedback_sessions[voice_sessions[v].feedback_session_id].rating = Some(4)
       /\ \E i, j, k \in ItemsOf(extracted_feedback, v) :
             /\ extracted_feedback[i].content = RatingFour.content
             /\ extracted_feedback[j].content = RatingNone.content
             /\ extracted_feedback[k].content = RatingTwo.content
             /\ extracted_feedback[j].confirmation_status = "confirmed"
             /\ extracted_feedback[k].confirmation_status = "confirmed"

(* C21: completed and cancelled are terminal for a voice session: complete  *)
(* and cancel on a session that is not active are answered InvalidState,    *)
(* and no step changes the status or the completion time of a session that  *)
(* is completed or cancelled.                                               *)
C21_VoiceTerminal ==
    /\ [](\A v \in Ids(voice_sessions) :
            Closed(v) => /\ CompleteSessionReply(v) = "InvalidState"
                         /\ CancelSessionReply(v) = "InvalidState")
    /\ [][\A v \in Ids(voice_sessions) :
            Closed(v) =>
               /\ voice_sessions'[v].status = voice_sessions[v].status
               /\ voice_sessions'[v].completed_at = voice_sessions[v].completed_at]_vars

(* C22: in a review the poem decision and the guide decision are           *)
(* independent.  Whether a guide version is appended and the resulting      *)
(* guide_changes_accepted are settled by accept_guide_changes and the       *)
(* revision alone; poem_accepted and the poem's status are settled by       *)
(* accept_poem alone.  Rejecting the poem while accepting the guide changes *)
(* still appends the version.                                               *)
C22_DecisionsIndependent ==
    [][\A r \in Ids(revisions), review \in GuideReviews :
         ReviewRevisionWithin(GuideLimits, r, review) =>
            LET p == revisions[r].original_poem_id
                proposal == Truthy(revisions[r].proposed_guide_changes)
                appended == Len(guide_versions') - Len(guide_versions)
            IN /\ appended = IF review.accept_guide_changes /\ proposal THEN 1 ELSE 0
               /\ revisions'[r].guide_changes_accepted =
                     IF review.accept_guide_changes
                     THEN (IF proposal THEN 1 ELSE revisions[r].guide_changes_accepted)
                     ELSE -1
               /\ revisions'[r].poem_accepted = IF review.accept_poem THEN 1 ELSE -1
               /\ poems'[p].status =
                     IF review.accept_poem THEN "accepted" ELSE poems[p].status]_vars
(* a rejected poem whose guide changes were accepted and appended *)
C22_Witness ==
    \E r \in Ids(revisions) :
       /\ revisions[r].poem_accepted = -1
       /\ revisions[r].guide_changes_accepted = 1
       /\ poems[revisions[r].original_poem_id].status # "accepted"
       /\ Len(guide_versions) = 2
       /\ guide_versions[2].content =
             guide_versions[1].content \o <<"\n\n">>
                \o Val(revisions[r].proposed_guide_changes)

(* the guide version with the greatest version number *)
Newest(gv) == CHOOSE g \in Range(gv) : \A h \in Range(gv) : h.version <= g.version
StartsWith(text, prefix) ==
    Len(prefix) <= Len(text) /\ SubSeq(text, 1, Len(prefix)) = prefix
EndsWith(text, suffix) ==
    /\ Len(suffix) <= Len(text)
    /\ SubSeq(text, Len(text) - Len(suffix) + 1, Len(text)) = suffix

(* C23: a review that accepts the guide changes of a revision with a        *)
(* proposal appends exactly one guide version, whose content is the current *)
(* guide content followed by the edited text if one is supplied and by the  *)
(* proposal otherwise, and sets guide_changes_accepted to 1; a review that  *)
(* does not accept them appends nothing and sets it to -1; accepting        *)
(* without a proposal appends nothing and leaves it as it was.              *)
C23_GuideChangesApplied ==
    [][\A r \in Ids(revisions), review \in GuideReviews :
         ReviewRevisionWithin(GuideLimits, r, review) =>
            LET proposal == revisions[r].proposed_guide_changes
                text == IF Truthy(review.edited_guide_changes)
                        THEN Val(review.edited_guide_changes) ELSE Val(proposal)
                current == Newest(guide_versions).content
                added == guide_versions'[Len(guide_versions')]
            IN IF review.accept_guide_changes /\ Truthy(proposal)
               THEN /\ Len(guide_versions') = Len(guide_versions) + 1
                    /\ SubSeq(guide_versions', 1, Len(guide_versions)) = guide_versions
                    /\ StartsWith(added.content, current)
                    /\ EndsWith(added.content, text)
                    /\ Len(added.content) <= Len(current) + Len(text) + 1
                    /\ revisions'[r].guide_changes_accepted = 1
               ELSE /\ guide_versions' = guide_versions
                    /\ revisions'[r].guide_changes_accepted =
                          IF review.accept_guide_changes
                          THEN revisions[r].guide_changes_accepted ELSE -1]_vars
(* a human edit, then accepted guide changes that the reviewer edited *)
C23_Witness ==
    /\ Len(guide_versions) = 3
    /\ guide_versions[2].content = <<"human_edit">>
    /\ guide_versions[3].content = <<"human_edit", "\n\n", "edited">>
    /\ \E r \in Ids(revisions) :
          /\ revisions[r].guide_changes_accepted = 1
          /\ Val(revisions[r].proposed_guide_changes) # <<"edited">>

(* C24: update_guide followed by get_current_guide returns the content     *)
(* just appended and a version one greater than the greatest version there  *)
(* was before (1 when there was none).                                      *)
C24_AppendThenCurrent ==
    [][\A content \in GuideUpdates :
         UpdateGuideWithin(GuideLimits, content) =>
            LET previous == Max({g.version : g \in Range(guide_versions)})
                current == CurrentGuide(guide_versions', guide_file')
            IN /\ current.content = content
               /\ current.version = previous + 1]_vars
(* a version appended to an empty store, and one appended after others *)
C24_Witness ==
    /\ Len(guide_versions) = 3
    /\ guide_versions[1] = [content |-> <<"human_edit">>, version |-> 1]
    /\ guide_versions[2].content # <<"human_edit">>
    /\ CurrentGuide(guide_versions, guide_file) =
          [content |-> <<"human_edit">>, version |-> 3]

(* C25: guide version numbers are unique and strictly increasing under any  *)
(* interleaving of appends (guide updates and reviews that accept guide     *)
(* changes): no two rows carry the same version, each appended row has a    *)
(* version greater than every row before it, and no row is changed.         *)
C25_VersionsUnique ==
    /\ [](\A i, j \in Ids(guide_versions) :
            i < j => guide_versions[i].version < guide_versions[j].version)
    /\ [][\A i \in Ids(guide_versions) :
            /\ i \in Ids(guide_versions')
            /\ guide_versions'[i] = guide_versions[i]]_vars

(* C26: process_feedback passes to the revision engine the content of the   *)
(* guide version the poem was generated against, also when newer versions   *)
(* have been appended since, and the empty text for a version that has no   *)
(* row.                                                                     *)
C26_ProcessUsesPoemGuide ==
    /\ \A s \in Ids(feedback_sessions) :
          LET version == poems[feedback_sessions[s].poem_id].guide_version
              rows == {g \in Range(guide_versions) : g.version = version}
          IN ProcessFeedbackReply(s) = "ok" =>
                /\ ~GetGuideVersionRaises(guide_versions, version)
                /\ \A g \in rows : ProcessGuide(s) = g.content
                /\ rows = {} => ProcessGuide(s) = <<>>
    /\ \A version \in 1..(MaxGuideRows + 1) :
          (\A g \in Range(guide_versions) : g.version # version) =>
             GuideVersionContent(guide_versions, version) = <<>>

(* a submitted session of a poem generated against version 1, with two      *)
(* newer versions of other content, and a version that has no row           *)
C26_Witness ==
    \E s \in Ids(feedback_sessions) :
       /\ ProcessFeedbackReply(s) = "ok"
       /\ RevisionsOf(s) = {}
       /\ poems[feedback_sessions[s].poem_id].guide_version = 1
       /\ Len(guide_versions) = 3
       /\ Newest(guide_versions).version = 3
       /\ Newest(guide_versions).content # ProcessGuide(s)
       /\ guide_versions[2].content # ProcessGuide(s)
       /\ ProcessGuide(s) = <<"guide">>
       /\ GuideVersionContent(guide_versions, 4) = <<>>

(* C27: with the rule engine, processing a submitted session that has no   *)
(* inline comment and no overall feedback succeeds: it stores a Revision    *)
(* whose revised_poem is the text of the poem, whose proposed_guide_changes *)
(* is absent and whose rationale says that no change could be applied, and  *)
(* the session becomes processed.                                           *)
C27_EmptyFeedbackProcessed ==
    [][\A s \in SessionIds :
          (/\ ProcessFeedbackReply(s) = "ok"
           /\ RevisionsOf(s) = {}
           /\ CommentsOf(s) = {}
           /\ ~Truthy(feedback_sessions[s].overall_feedback)
           /\ ProcessFeedbackWith(TRUE, s))
          => /\ Len(revisions') = Len(revisions) + 1
             /\ revisions'[Len(revisions')].session_id = s
             /\ revisions'[Len(revisions')].revised_poem =
                    poems[feedback_sessions[s].poem_id].content
             /\ revisions'[Len(revisions')].proposed_guide_changes = None
             /\ revisions'[Len(revisions')].rationale = Some(NoChangeRationale)
             /\ feedback_sessions'[s].status = "processed"]_vars

C27_Witness ==
    \E r \in Ids(revisions) :
        /\ CommentsOf(revisions[r].session_id) = {}
        /\ ~Truthy(feedback_sessions[revisions[r].session_id].overall_feedback)
        /\ feedback_sessions[revisions[r].session_id].status = "processed"
        /\ revisions[r].revised_poem = poems[revisions[r].original_poem_id].content
        /\ Len(revisions[r].revised_poem) > 1

(* C30: with the rule engine, for every word that a forbidden-word          *)
(* directive of the feedback (overall text, comment texts, highlighted      *)
(* texts) names and that occurs in the poem, the revised poem of the stored *)
(* Revision does not contain the word, whatever the case of its letters,    *)
(* and proposed_guide_changes holds a rule that names the word.             *)
C30_ForbiddenWordsRemoved ==
    [][\A s \in SessionIds :
          (/\ ProcessFeedbackReply(s) = "ok"
           /\ RevisionsOf(s) = {}
           /\ ProcessFeedbackWith(TRUE, s))
          => \A word \in ExtractForbiddenWords(
                    AllFeedbackText(OrEmpty(feedback_sessions[s].overall_feedback),
                                    SortedComments(CommentsOf(s)))) :
                Contains(Lower(poems[feedback_sessions[s].poem_id].content), word)
                => /\ ~Contains(Lower(revisions'[Len(revisions')].revised_poem), word)
                   /\ revisions'[Len(revisions')].proposed_guide_changes # None
                   /\ Contains(Val(revisions'[Len(revisions')].proposed_guide_changes),
                               word)]_vars

(* text[start:end], counted from 0, as a Python slice *)
Slice(text, start, end) ==
    SubSeq(text, start + 1, IF end < Len(text) THEN end ELSE Len(text))
(* the bounds at which the highlighted text stands in the poem, in whatever *)
(* case its letters are                                                     *)
BoundsIgnoringCase(poem_text, highlighted_text) ==
    {start \in 0..Len(poem_text) :
        /\ start + Len(highlighted_text) <= Len(poem_text)
        /\ Lower(Slice(poem_text, start, start + Len(highlighted_text)))
              = Lower(highlighted_text)}

(* C29: for every text T and query S the offset resolver returns            *)
(* (i, i+len(S)) for the leftmost i with T[i:i+len(S)] = S when S occurs in *)
(* T; otherwise, when S occurs in another case, the leftmost bounds         *)
(* (start, end) with T[start:end] equal to S ignoring case; otherwise       *)
(* not-found; and the call changes nothing but its own result.              *)
C29_OffsetsResolved ==
    /\ []( \A i \in Ids(offset_calls) :
             offset_calls[i].returned =>
                LET T == offset_calls[i].poem_text
                    S == offset_calls[i].highlighted_text
                    exact == {start \in 0..Len(T) :
                                 /\ start + Len(S) <= Len(T)
                                 /\ Slice(T, start, start + Len(S)) = S}
                    folded == BoundsIgnoringCase(T, S)
                    least(bounds) == CHOOSE start \in bounds :
                                        \A other \in bounds : start <= other
                IN offset_calls[i].offsets =
                      IF exact # {} THEN Some(<<least(exact), least(exact) + Len(S)>>)
                      ELSE IF folded # {}
                      THEN Some(<<least(folded), least(folded) + Len(S)>>)
                      ELSE None )
    /\ [][\A i \in Ids(offset_calls) :
             CalculateTextOffsetsReturns(i) =>
                /\ offset_calls'[i].poem_text = offset_calls[i].poem_text
                /\ offset_calls'[i].highlighted_text = offset_calls[i].highlighted_text
                /\ UNCHANGED <<guide_file, guide_versions, poems, feedback_sessions,
                               inline_comments, revisions, voice_sessions,
                               conversation_messages, extracted_feedback>>]_vars

(* C28: in every reachable state every InlineComment, and every             *)
(* ExtractedFeedback item whose start and end offsets are both set, has     *)
(* 0 <= start < end <= the length of the poem its session reviews, whether  *)
(* add_comment, the extractor behind send_message and save_transcript, or   *)
(* confirm_feedback wrote the row.                                          *)
C28_OffsetsWithinPoem ==
    /\ \A c \in inline_comments :
          /\ 0 <= c.start_offset
          /\ c.start_offset < c.end_offset
          /\ c.end_offset
                <= Len(poems[feedback_sessions[c.session_id].poem_id].content)
    /\ \A e \in Ids(extracted_feedback) :
          (extracted_feedback[e].start_offset # None
              /\ extracted_feedback[e].end_offset # None)
          => /\ 0 <= Val(extracted_feedback[e].start_offset)
             /\ Val(extracted_feedback[e].start_offset)
                   < Val(extracted_feedback[e].end_offset)
             /\ Val(extracted_feedback[e].end_offset)
                   <= Len(poems[feedback_sessions[
                             voice_sessions[extracted_feedback[e].voice_session_id]
                                .feedback_session_id].poem_id].content)

(* C31: with the rule engine, every inline comment of a processed session   *)
(* leaves at least one entry in the rationale of the Revision, a change to  *)
(* the poem or a note that the comment was reviewed, so the rationale lists *)
(* at least as many entries as the session has comments.                    *)
C31_CommentsTraced ==
    [][\A s \in SessionIds :
          (/\ ProcessFeedbackReply(s) = "ok"
           /\ RevisionsOf(s) = {}
           /\ ProcessFeedbackWith(TRUE, s))
          => Cardinality({i \in 1..Len(Val(revisions'[Len(revisions')].rationale)) :
                             Val(revisions'[Len(revisions')].rationale)[i] = Bullet})
                >= Cardinality(CommentsOf(s))]_vars


(* C32: an answer of the generation capability that cannot be parsed never *)
(* aborts the surrounding transition: process stores a Revision holding    *)
(* the unmodified original poem, no guide proposal and a rationale saying   *)
(* that parsing failed, and marks the session processed; sendTurn stores    *)
(* its two messages with no extracted item and leaves the session active.   *)
C32_UnparseableDegrades ==
    /\ [][\A i \in InFlightIds, answer \in RevisionAnswers :
            (/\ answer.json # "object"
             /\ i \in Ids(in_flight)
             /\ in_flight[i].call = "process"
             /\ RevisionsOf(in_flight[i].id) = {}
             /\ ProcessFeedbackCommits(i, answer))
            => /\ Len(revisions') = Len(revisions) + 1
               /\ revisions'[Len(revisions')].session_id = in_flight[i].id
               /\ revisions'[Len(revisions')].revised_poem =
                     poems[feedback_sessions[in_flight[i].id].poem_id].content
               /\ revisions'[Len(revisions')].proposed_guide_changes = None
               /\ revisions'[Len(revisions')].rationale =
                     Some(<<"Failed to parse AI response: ">>)
               /\ feedback_sessions'[in_flight[i].id].status = "processed"]_vars
    /\ [][\A i \in InFlightIds, answer \in InterviewerAnswers :
            (/\ answer.json # "object"
             /\ i \in Ids(in_flight)
             /\ in_flight[i].call = "send"
             /\ SendMessageCommits(i, answer))
            => /\ Len(conversation_messages') = Len(conversation_messages) + 2
               /\ extracted_feedback' = extracted_feedback
               /\ voice_sessions' = voice_sessions]_vars

(* C33: however two process calls on one submitted session interleave,     *)
(* the session has at most one Revision; a call whose engine has answered   *)
(* leaves the session processed with exactly one Revision; and the call     *)
(* that resumes after the other has stored its Revision stores nothing.     *)
C33_OneRevisionUnderInterleaving ==
    /\ [](\A s \in Ids(feedback_sessions) : Cardinality(RevisionsOf(s)) <= 1)
    /\ [][\A i \in InFlightIds, answer \in RevisionAnswers :
            (/\ i \in Ids(in_flight)
             /\ in_flight[i].call = "process"
             /\ ProcessFeedbackCommits(i, answer))
            => IF RevisionsOf(in_flight[i].id) # {}
               THEN /\ revisions' = revisions
                    /\ feedback_sessions'[in_flight[i].id].status = "processed"
               ELSE GenerateRevisionLive(<<>>, answer) # None
                    => /\ Len(revisions') = Len(revisions) + 1
                       /\ revisions'[Len(revisions')].session_id = in_flight[i].id
                       /\ feedback_sessions'[in_flight[i].id].status
                             = "processed"]_vars

(* two process calls passed the checks on one session, one has stored its  *)
(* Revision and the other is about to resume                                *)
C33_Witness ==
    \E i \in Ids(in_flight) :
       /\ in_flight[i].call = "process"
       /\ Cardinality(RevisionsOf(in_flight[i].id)) = 1
       /\ feedback_sessions[in_flight[i].id].status = "processed"

(* C34: a sendTurn that resumes after the session was cancelled or         *)
(* completed commits no ConversationMessage and no ExtractedFeedback to it   *)
(* and leaves its status as it is.                                          *)
C34_NoTurnAfterClose ==
    [][\A i \in InFlightIds, answer \in InterviewerAnswers :
          (/\ i \in Ids(in_flight)
           /\ in_flight[i].call = "send"
           /\ voice_sessions[in_flight[i].id].status \in {"cancelled", "completed"}
           /\ SendMessageCommits(i, answer))
          => /\ conversation_messages' = conversation_messages
             /\ extracted_feedback' = extracted_feedback
             /\ voice_sessions'[in_flight[i].id].status =
                   voice_sessions[in_flight[i].id].status]_vars

(* C35: an addComment that resumes after the commit that set the session   *)
(* submitted commits no InlineComment to it.                                *)
C35_NoCommentAfterSubmit ==
    [][\A i \in InFlightIds :
          (/\ i \in Ids(in_flight)
           /\ in_flight[i].call = "comment"
           /\ feedback_sessions[in_flight[i].id].status # "in_progress"
           /\ AddCommentCommits(i))
          => inline_comments' = inline_comments]_vars


(* C36: no committed state holds a Revision with poem_accepted 1 whose     *)
(* poem is in status revised, reviews that accept guide changes included.   *)
C36_ReviewAtomic ==
    \A r \in Ids(revisions) :
       revisions[r].poem_accepted = 1
       => poems[revisions[r].original_poem_id].status # "revised"


(* C37: the proposed guide changes of a Revision are merged at most once:  *)
(* once a review has applied them, no later review of that Revision         *)
(* appends a guide version.                                                 *)
C37_GuideChangesMergedOnce ==
    [][\A r \in RevisionIds, review \in GuideReviews :
          (/\ r \in Ids(revisions)
           /\ revisions[r].guide_changes_accepted = 1
           /\ ReviewRevisionWithin(GuideLimits, r, review))
          => guide_versions' = guide_versions]_vars


(* what confirm_feedback would leave on the parent session of v when called *)
(* with the request in the current state: its comments, overall feedback,   *)
(* rating and status                                                        *)
ConfirmFeedbackParent(v, request) ==
    LET s == voice_sessions[v].feedback_session_id
        acc == FoldConfirmed(
                 [items |-> MarkRejected(extracted_feedback, v, request.rejected_ids),
                  comments |-> inline_comments,
                  overall_parts |-> <<>>, guide_parts |-> <<>>,
                  rating_value |-> None],
                 v, s, request.confirmed_ids)
        overall1 == IF acc.overall_parts # <<>>
                    THEN Some(Join(acc.overall_parts, <<"\n\n">>))
                    ELSE feedback_sessions[s].overall_feedback
        overall2 == IF acc.guide_parts # <<>>
                    THEN Some(OrEmpty(overall1)
                              \o <<"\n\nSuggested Guide Rules:\n">>
                              \o Join(Bullets(acc.guide_parts), <<"\n">>))
                    ELSE overall1
    IN [comments |-> {c \in acc.comments : c.session_id = s},
        overall_feedback |-> overall2,
        rating |-> IF acc.rating_value # None
                   THEN acc.rating_value ELSE feedback_sessions[s].rating,
        status |-> "submitted"]
ParentOf(v) ==
    LET s == voice_sessions[v].feedback_session_id
    IN [comments |-> CommentsOf(s),
        overall_feedback |-> feedback_sessions[s].overall_feedback,
        rating |-> feedback_sessions[s].rating,
        status |-> feedback_sessions[s].status]

(* C38: confirmFeedback is idempotent: in the state a confirm call leaves, *)
(* the same call again would leave the parent session's comments, overall   *)
(* feedback, rating and status as they are.                                 *)
C38_ConfirmIdempotent ==
    [][\A v \in VoiceIds, request \in FoldConfirmRequests :
          (/\ ConfirmFeedbackReply(v, request) = "ok"
           /\ ConfirmFeedbackWithin(FoldLimits, v, request))
          => (ConfirmFeedbackParent(v, request) = ParentOf(v))']_vars


(* C39: a FeedbackSession in status processed has a Revision. *)
C39_ProcessedHasRevision ==
    \A s \in Ids(feedback_sessions) :
       feedback_sessions[s].status = "processed" => RevisionsOf(s) # {}

(* a session that process has marked processed *)
C39_Witness ==
    \E s \in Ids(feedback_sessions) :
       /\ feedback_sessions[s].status = "processed"
       /\ Cardinality(RevisionsOf(s)) = 1


====
